---------------------------- MODULE Spec2Model ----------------------------
(***************************************************************************)
(* State-machine model of the runner game's clock (GameTimeManager), its   *)
(* per-frame controller and its input handling (Player).                   *)
(*                                                                         *)
(* Units.  Time is counted in ticks of 1/3600 s, so that 1/60 s, 0.05 s,   *)
(* 0.1 s and 0.2 s are the integers 60, 180, 360 and 720 and the mean of   *)
(* one to five deltas that are multiples of 60 ticks is an integer: the    *)
(* arithmetic of updateTime is then exact.  IEEE rounding of the doubles   *)
(* is not modelled.                                                        *)
(***************************************************************************)
EXTENDS Integers, Sequences, FiniteSets, TLC

TicksPerSecond == 60 * 60

\* GameTimeManager.ts:13-15, in ticks
MAX_DELTA_TIME == 180
EXTREME_DELTA_THRESHOLD == 720
SMOOTHING_SAMPLES == 5

\* Bound of the clock specification: updateTime is not called once gameTime
\* has reached MaxGameTime ticks.
MaxGameTime == 300

\* Raw frame deltas fed to updateTime by the clock specification: 0, 1/60 s,
\* 0.05 s (the clamp ceiling), 0.1 s (the recovering threshold, not over it),
\* 0.15 s (recovering), 0.2 s (the extreme threshold, not over it) and 5 s
\* (extreme).
RawDeltas == {0, 60, 180, 360, 540, 720, 5 * TicksPerSecond}

\* Bound of the history variable pausedCalls (it saturates there).
MaxPausedCalls == 2

\* Bound of the session specification: the game time up to which updateTime
\* is called.
MaxSessionTime == 240

\* Bound of the steady specification: the frames played at the sustained
\* delta.
MaxSteadyFrames == 8

\* Bounds of the airborne specification: the game time up to which frames
\* run (past the end of a jump started after the first frame) and the
\* disturbances delivered.
MaxAirTime == 3600
MaxAirInputs == 2

\* Bound of the specification of the camera components: the detections that
\* reach the component's callback.
MaxMountDetections == 2

\* Bound of the detection-loop specification: the animation frames and
\* camera frames delivered to the engine.
MaxLoopFrames == 4

\* Bounds of the specification of a halted game: the game time a new game
\* is followed for, and the disturbances delivered to it, which can pause
\* and resume it.
MaxHaltTime == 180
MaxHaltInputs == 3

\* Bounds of the diagnostics specification: the seconds of play before the
\* calls that are followed, and the number of those calls.
MaxDiagSeconds == 9
MaxDiagFrames == 5

\* Bound of the movement specification: the frames and lane keys delivered.
MaxMoveFrames == 4

\* Bounds of the input specification: the game time (in ticks) up to which
\* frames run, and the disturbances delivered (key presses, hand detections
\* and late frames).
MaxInputTime == 540
MaxInputs == 2

\* Bounds of the jump specification, which runs past the end of a jump.
MaxJumpTime == 3420
MaxJumpInputs == 1

\* Bounds of the run specification: the quiet frames of 0.05 s played first
\* (WarmUpFrames, or ApproachFrames more with a jump among them), the game
\* time the run is then followed for, and the disturbances delivered (key
\* presses and late frames).
WarmUpFrames == 68
ApproachFrames == 24
MaxRunTime == 1440
MaxRunKeys == 1

\* The quiet frames of the run that is left on the ground after a jump
\* through the first mate, in time to jump for the second.
RegrantFrames == 88

\* The quiet frames played after a jump that is to reach the first mate.
ReachFrames == 6

\* Bounds of the specification of the end of a run: the game time the run is
\* followed for after its quiet start, and the disturbances delivered (key
\* presses, hand detections and late frames).
MaxOverTime == 1440
MaxOverInputs == 1

\* Bounds of the specification of two runs: the quiet frames played first,
\* the frames of them played after a jump that is about to end, the frames
\* played up to the end of an invulnerability, the game time the two runs
\* are then followed for, and the disturbances delivered (key presses and
\* frames that are on time in the second run).
PairFrames == 74
LandFrames == 10
ExpiryFrames == 170
MaxPairTime == 1440
MaxPairKeys == 1

\* the helpers are read up to this game time: 2.3 s
MaxTimerTime == 8280

\* game times the helpers are first read at: 0, 0.05 s, 0.15 s
InitialTimes == {0, MAX_DELTA_TIME, 3 * MAX_DELTA_TIME}

\* start times of an event: 0, 0.15 s, 0.3 s
StartTimes == {0, 3 * MAX_DELTA_TIME, 6 * MAX_DELTA_TIME}

\* lengths of an event: 0.3 s, the jump (0.9 s), the spawn interval (1 s)
EventLengths == {6 * MAX_DELTA_TIME, 18 * MAX_DELTA_TIME, TicksPerSecond}

\* game time between two reads: one frame at the cap, or 0.3 s of them
TimerSteps == {MAX_DELTA_TIME, 6 * MAX_DELTA_TIME}

\* real time a steady frame rate is kept for: 2 s
MaxRealTime == 7200

\* the frame of the reference rate, 60 FPS
ReferenceDelta == TicksPerSecond \div 60

\* steady frame rates: 60, 30, 20 and 10 FPS
SteadyDeltas == {ReferenceDelta, 2 * ReferenceDelta, 3 * ReferenceDelta,
                 6 * ReferenceDelta}

\* Raw frame deltas of the game specifications: 0.05 s, 0.15 s (recovering)
\* and 5 s (extreme).
FrameDeltas == {180, 540, 5 * TicksPerSecond}

VARIABLES
  clock,      \* the GameTimeManager singleton
  result,     \* what the last updateTime call returned
  lastCall,   \* history: the last operation called on the clock, with its argument
  pausedCalls,\* history: updateTime calls answered during the latest pause, kept
              \* until the frame after the first one that follows the pause
  scene,      \* GameScene's state: isGameOver, isPaused
  hand,       \* the hand-control context (lane, jump) and the camera's lastLaneRef
  player,     \* the Player component's state and refs
  twin,       \* a second run of the game, played beside the first
  script,     \* the quiet frames still to play before the run is followed
  event,      \* history: the last handler that ran and which gesture effects it fired
  timeLimit,  \* bound: no frame runs once gameTime has reached it
  inputBudget \* bound: key presses and hand detections left to deliver

clockVars == <<clock, result, lastCall, pausedCalls>>
gameVars == <<scene, hand, player, twin, script, event, timeLimit, inputBudget>>
vars == <<clock, result, lastCall, pausedCalls, scene, hand, player, twin, script,
          event, timeLimit, inputBudget>>

Min(a, b) == IF a <= b THEN a ELSE b
Max(a, b) == IF a >= b THEN a ELSE b

RECURSIVE SumSeq(_)
SumSeq(s) == IF s = <<>> THEN 0 ELSE Head(s) + SumSeq(Tail(s))

-----------------------------------------------------------------------------
(* GameTimeManager *)

\* the fields set by the field initialisers and the constructor
NewClock ==
  [ gameTime       |-> 0,
    isPaused       |-> FALSE,
    pauseStartTime |-> 0,
    deltaHistory   |-> <<>>,
    smoothedDelta  |-> TicksPerSecond \div 60 ]

NoResult == [processedDelta |-> 0, shouldSkipPhysics |-> FALSE, isRecoveringFromFreeze |-> FALSE]

\* the threshold taken for milliseconds
isExtremeFrame_Millis(rawDeltaTime) == rawDeltaTime > EXTREME_DELTA_THRESHOLD * 1000

isExtremeFrame(rawDeltaTime) == rawDeltaTime > EXTREME_DELTA_THRESHOLD

\* >= for >
isRecoveringFromFreeze_Inclusive(rawDeltaTime) == rawDeltaTime >= MAX_DELTA_TIME * 2

isRecoveringFromFreeze(rawDeltaTime) == rawDeltaTime > MAX_DELTA_TIME * 2

\* the delta entered into the history as measured
clampedDelta_Uncapped(rawDeltaTime) == rawDeltaTime

clampedDelta(rawDeltaTime) == Min(rawDeltaTime, MAX_DELTA_TIME)

\* the newest entry dropped from an overfull history, not the oldest
pushDelta_KeepsOldest(history, d) ==
  LET pushed == Append(history, d)
  IN  IF Len(pushed) > SMOOTHING_SAMPLES THEN SubSeq(pushed, 1, SMOOTHING_SAMPLES)
      ELSE pushed

\* the history without its eviction
pushDelta_NoEviction(history, d) == Append(history, d)

\* deltaHistory.push(d); if (length > SMOOTHING_SAMPLES) shift()
pushDelta(history, d) ==
  LET pushed == Append(history, d)
  IN  IF Len(pushed) > SMOOTHING_SAMPLES THEN Tail(pushed) ELSE pushed

\* the newest sample alone, no averaging
movingAverage_NewestOnly(history) == history[Len(history)]

\* deltaHistory.reduce((sum, d) => sum + d, 0) / deltaHistory.length
movingAverage(history) == SumSeq(history) \div Len(history)

\* the accumulation lost: only a negative delta would move gameTime
accumulate_Stalled(gameTime, smoothedDelta) == gameTime + Min(smoothedDelta, 0)

\* this.gameTime += this.smoothedDelta
accumulate(gameTime, smoothedDelta) == gameTime + smoothedDelta

\* the paused frame reported as one to process
pausedResult_Processed ==
  [processedDelta |-> 0, shouldSkipPhysics |-> FALSE, isRecoveringFromFreeze |-> FALSE]

\* the value returned while paused
pausedResult ==
  [processedDelta |-> 0, shouldSkipPhysics |-> TRUE, isRecoveringFromFreeze |-> FALSE]

\* the extreme frame handed on as a frame to process, with the capped delta
extremeResult_Processed ==
  [processedDelta |-> MAX_DELTA_TIME, shouldSkipPhysics |-> FALSE,
   isRecoveringFromFreeze |-> TRUE]

\* the value returned for an extreme frame
extremeResult ==
  [processedDelta |-> 0, shouldSkipPhysics |-> TRUE, isRecoveringFromFreeze |-> TRUE]

\* updateTime(rawDeltaTime): the clock after the call and the value returned
updateTime(c, rawDeltaTime) ==
  IF c.isPaused
  THEN [ clock |-> c, result |-> pausedResult ]
  ELSE IF isExtremeFrame(rawDeltaTime)
  THEN [ clock |-> c, result |-> extremeResult ]
  ELSE LET history  == pushDelta(c.deltaHistory, clampedDelta(rawDeltaTime))
           smoothed == movingAverage(history)
       IN  [ clock  |-> [c EXCEPT !.deltaHistory  = history,
                                  !.smoothedDelta = smoothed,
                                  !.gameTime      = accumulate(c.gameTime, smoothed)],
             result |-> [processedDelta |-> smoothed, shouldSkipPhysics |-> FALSE,
                         isRecoveringFromFreeze |-> isRecoveringFromFreeze(rawDeltaTime)] ]

setPaused(c, paused) ==
  [c EXCEPT !.pauseStartTime = IF paused /\ ~c.isPaused THEN c.gameTime ELSE @,
            !.isPaused       = paused]

\* reset() without the reset of the smoothing system
reset_KeepsSmoothing(c) ==
  [c EXCEPT !.gameTime = 0, !.isPaused = FALSE, !.pauseStartTime = 0]

\* reset(): the assignments to the fields that are modelled
reset(c) ==
  [c EXCEPT !.gameTime       = 0,
            !.isPaused       = FALSE,
            !.pauseStartTime = 0,
            !.deltaHistory   = <<>>,
            !.smoothedDelta  = TicksPerSecond \div 60]

-----------------------------------------------------------------------------
(* GAME_CONFIG (config.ts).  Lengths are counted in 1/100 of a world unit,   *)
(* durations in ticks.  updateGameDifficulty (a sigmoid of the score, which  *)
(* drifts playerSpeed, jump.duration and obstacles.spawnInterval) is not     *)
(* modelled: the three stay at the values config.ts ships and handleRestart  *)
(* restores.                                                                 *)

PosScale == 10 * 10

playerSpeedTenths == 3          \* playerSpeed: 0.3
laneOffset == 400               \* lanes: left -4, center 0, right 4
jumpHeight == 300               \* jump.height: 3
jumpDuration == 3240            \* jump.duration: 0.9 s
spawnInterval == 3600           \* obstacles.spawnInterval: 1.0 s
spawnDistance == 5000           \* obstacles.spawnDistance: 50
obstacleSizeXZ == 150           \* obstacles.size[0], size[2]: 1.5
obstacleSizeY == 200            \* obstacles.size[1]: 2
mateSize == 50                  \* mate.size: 0.5
mateHeight == 300               \* mate.height: 3
invulnerabilityDuration == 18000 \* mate.invulnerabilityDuration: 5000 ms
segmentSize == 2000             \* terrain.segmentSize: 20
segmentsAhead == 5
segmentsBehind == 2

\* literals of Player.tsx
playerSize == 80                \* the player box: 0.8
wallImageInterval == 12600      \* 3.5 s
wallImageDistance == 3000       \* currentZ + 30
cleanupDistance == 2000         \* newZ - 20
lightSpacing == 6000            \* roundedZ % 60
recoveryDeltaCap == 120         \* Math.min(delta, 1/30)
lerpRate == 8                   \* 8 * safeDelta

Lanes == {"left", "center", "right"}

\* GAME_CONFIG.lanes[lane]
laneX(lane) ==
  CASE lane = "left"   -> -laneOffset
    [] lane = "center" -> 0
    [] lane = "right"  -> laneOffset

\* a / b rounded toward zero
TruncDiv(a, b) == IF a >= 0 THEN a \div b ELSE -((-a) \div b)

\* Math.round(z / segmentSize) * segmentSize
roundToSegment(z) == ((2 * z + segmentSize) \div (2 * segmentSize)) * segmentSize

-----------------------------------------------------------------------------
(* Timed-event helpers of GameTimeManager *)

\* the interval taken as not yet elapsed at its very end
hasTimeElapsed_Strict(c, lastTime, interval) == c.gameTime - lastTime > interval

\* the interval counted from the start of the game instead of from lastTime
hasTimeElapsed_FromZero(c, lastTime, interval) == c.gameTime >= interval

\* the interval taken as elapsed one capped frame before its end
hasTimeElapsed_Early(c, lastTime, interval) ==
  c.gameTime - lastTime >= interval - MAX_DELTA_TIME

hasTimeElapsed(c, lastTime, interval) == c.gameTime - lastTime >= interval

\* progress is counted in 1/1000
ProgressScale == 10 * 10 * 10

\* the progress without its upper clamp
getEventProgress_Unclamped(c, startTime, duration) ==
  Max(((c.gameTime - startTime) * ProgressScale) \div duration, 0)

getEventProgress(c, startTime, duration) ==
  Min(Max(((c.gameTime - startTime) * ProgressScale) \div duration, 0), ProgressScale)

\* the event taken as complete only after twice its duration
isEventComplete_Late(c, startTime, duration) == c.gameTime - startTime >= 2 * duration

isEventComplete(c, startTime, duration) == c.gameTime - startTime >= duration

\* Math.sin(jumpProgress * Math.PI) * GAME_CONFIG.jump.height, the sine taken
\* by Bhaskara's rational approximation 16 p (1 - p) / (5 - 4 p (1 - p)),
\* which is within 0.002 of the sine on [0, 1]
jumpArc(progress) ==
  LET q == progress * (ProgressScale - progress)
  IN  (16 * q * jumpHeight) \div (5 * ProgressScale * ProgressScale - 4 * q)

-----------------------------------------------------------------------------
(* Player.tsx: collisions *)

\* THREE.Box3.setFromCenterAndSize / intersectsBox on one axis: the closed
\* intervals [c1 - s1/2, c1 + s1/2] and [c2 - s2/2, c2 + s2/2] meet
AxisMeets(c1, s1, c2, s2) ==
  /\ 2 * c2 + s2 >= 2 * c1 - s1
  /\ 2 * c2 - s2 <= 2 * c1 + s1

\* playerBox.intersectsBox(mateBox)
intersectsMate(px, py, pz, mate) ==
  /\ AxisMeets(px, playerSize, mate.x, mateSize)
  /\ AxisMeets(py, playerSize, mateHeight, mateSize)
  /\ AxisMeets(pz, playerSize, mate.z, mateSize)

\* playerBox.intersectsBox(obstacleBox): the obstacle box is centred at
\* y = size[1] / 2 - 1
intersectsObstacle(px, py, pz, obstacle) ==
  /\ AxisMeets(px, playerSize, obstacle.x, obstacleSizeXZ)
  /\ AxisMeets(py, playerSize, obstacleSizeY \div 2 - PosScale, obstacleSizeY)
  /\ AxisMeets(pz, playerSize, obstacle.z, obstacleSizeXZ)

\* index of the first mate of the list the player box meets, 0 if none
firstMateHit(mates, px, py, pz) ==
  LET hits == {i \in 1..Len(mates) : intersectsMate(px, py, pz, mates[i])}
  IN  IF hits = {} THEN 0 ELSE CHOOSE i \in hits : \A j \in hits : i <= j

\* the obstacle loop entered whatever the invulnerability
obstacleLoopRuns_Always(isInvulnerable) == TRUE

\* the obstacle loop runs only for a player that is not invulnerable
obstacleLoopRuns(isInvulnerable) == ~isInvulnerable

\* checkCollisions(playerX, playerY, playerZ) over the mates, obstacles and
\* isInvulnerable of the render the frame callback closed over: the id of the
\* mate handed to collectMate (-1 if none) and the value returned
checkCollisions(pl, px, py, pz) ==
  LET m == firstMateHit(pl.mates, px, py, pz)
  IN  IF m # 0
      THEN [collected |-> pl.mates[m].id, gameOver |-> FALSE]
      ELSE [collected |-> -1,
            gameOver  |-> /\ obstacleLoopRuns(pl.isInvulnerable)
                          /\ \E i \in 1..Len(pl.obstacles) :
                               intersectsObstacle(px, py, pz, pl.obstacles[i])]

-----------------------------------------------------------------------------
(* Player.tsx: the world around the player *)

RECURSIVE InsertByZ(_, _)
InsertByZ(sorted, e) ==
  IF sorted = <<>> THEN <<e>>
  ELSE IF e.z < Head(sorted).z THEN <<e>> \o sorted
  ELSE <<Head(sorted)>> \o InsertByZ(Tail(sorted), e)

\* [...].sort((a, b) => a.z - b.z), a stable sort
RECURSIVE SortByZ(_)
SortByZ(list) ==
  IF list = <<>> THEN <<>>
  ELSE InsertByZ(SortByZ(SubSeq(list, 1, Len(list) - 1)), list[Len(list)])

ZsOf(list) == {list[i].z : i \in 1..Len(list)}

\* the loop leaving out its last slot, as with  z < maxZ
windowSlots_OneShort(playerZ) ==
  [k \in 1..(segmentsAhead + segmentsBehind) |->
     roundToSegment(playerZ - segmentsBehind * segmentSize + (k - 1) * segmentSize)]

\* the slots the loop  for (z = minZ; z <= maxZ; z += segmentSize)  visits,
\* rounded, in the order visited
windowSlots(playerZ) ==
  [k \in 1..(segmentsAhead + segmentsBehind + 1) |->
     roundToSegment(playerZ - segmentsBehind * segmentSize + (k - 1) * segmentSize)]

\* roundedZ % 60 === 0
lightSlot(z) == z % lightSpacing = 0

\* the entries pushed for the slots that hold nothing yet (for the lights:
\* the light slots among them), with ids counter, counter + 1, ...
RECURSIVE pushMissing(_, _, _, _, _)
pushMissing(list, slots, existing, counter, lightsOnly) ==
  IF slots = <<>> THEN [list |-> list, counter |-> counter]
  ELSE IF (lightsOnly => lightSlot(Head(slots))) /\ Head(slots) \notin existing
  THEN pushMissing(Append(list, [id |-> counter, z |-> Head(slots)]),
                   Tail(slots), existing, counter + 1, lightsOnly)
  ELSE pushMissing(list, Tail(slots), existing, counter, lightsOnly)

keepsBehind(e, playerZ) ==
  e.z >= playerZ - segmentsBehind * segmentSize - segmentSize * 2

\* updateTerrain(playerZ): the segments and the id counter after it
updateTerrain(segments, counter, playerZ) ==
  LET filtered == SelectSeq(segments, LAMBDA e : keepsBehind(e, playerZ))
      pushed   == pushMissing(filtered, windowSlots(playerZ), ZsOf(filtered), counter, FALSE)
  IN  [list |-> SortByZ(pushed.list), counter |-> pushed.counter]

\* updateTunnelLights(playerZ)
updateTunnelLights(lights, counter, playerZ) ==
  LET filtered == SelectSeq(lights, LAMBDA e : keepsBehind(e, playerZ))
      pushed   == pushMissing(filtered, windowSlots(playerZ), ZsOf(filtered), counter, TRUE)
  IN  [list |-> SortByZ(pushed.list), counter |-> pushed.counter]

\* the initial terrain segments and tunnel lights: ids 0.., one per slot
initialSegments ==
  [i \in 1..(segmentsAhead + segmentsBehind + 1) |->
     [id |-> i - 1, z |-> (i - 1 - segmentsBehind) * segmentSize]]

\* the state of the Player component after its first render
NewPlayer ==
  [ currentLane            |-> "center",
    targetX                |-> laneX("center"),
    positionZ              |-> 0,
    meshX                  |-> 0,
    currentY               |-> 0,
    isJumping              |-> FALSE,
    jumpStartTime          |-> 0,
    isInvulnerable         |-> FALSE,
    invulnerabilityEndTime |-> 0,
    obstacles              |-> <<>>,
    lastObstacleSpawn      |-> 0,
    obstacleIdCounter      |-> 0,
    mates                  |-> <<>>,
    mateIdCounter          |-> 0,
    wallImages             |-> <<>>,
    lastWallImageSpawn     |-> 0,
    wallImageIdCounter     |-> 0,
    terrainSegments        |-> initialSegments,
    terrainIdCounter       |-> segmentsAhead + segmentsBehind + 1,
    tunnelLights           |-> initialSegments,
    lightIdCounter         |-> segmentsAhead + segmentsBehind + 1,
    keyboardActive         |-> FALSE,
    keyboardTimeout        |-> FALSE ]

\* GameScene's state
NewScene == [isGameOver |-> FALSE, isPaused |-> FALSE]

\* HandControlProvider's state and the camera component's lastLaneRef
NewHand == [lane |-> "none", jump |-> FALSE, lastLaneRef |-> "none"]

\* the ids taken from the counters, which are left as they were
spawnObstacle_StaleCounters(pl, currentZ, randomLane, mateRoll) ==
  LET newObstacle == [id |-> pl.obstacleIdCounter, x |-> laneX(randomLane),
                      z |-> currentZ + spawnDistance, lane |-> randomLane]
      newMate     == [id |-> pl.mateIdCounter, x |-> laneX(randomLane),
                      z |-> currentZ + spawnDistance, lane |-> randomLane]
  IN  [pl EXCEPT !.obstacles = Append(@, newObstacle),
                 !.mates = IF mateRoll THEN Append(@, newMate) ELSE @]

\* the mate placed in the center lane whatever the obstacle's lane
spawnObstacle_MateInCenter(pl, currentZ, randomLane, mateRoll) ==
  LET newObstacle == [id |-> pl.obstacleIdCounter, x |-> laneX(randomLane),
                      z |-> currentZ + spawnDistance, lane |-> randomLane]
      newMate     == [id |-> pl.mateIdCounter, x |-> laneX("center"),
                      z |-> currentZ + spawnDistance, lane |-> "center"]
  IN  [pl EXCEPT !.obstacles = Append(@, newObstacle),
                 !.obstacleIdCounter = @ + 1,
                 !.mates = IF mateRoll THEN Append(@, newMate) ELSE @,
                 !.mateIdCounter = IF mateRoll THEN @ + 1 ELSE @]

\* spawnObstacle(currentZ), with the lane and the mate roll Math.random gave
spawnObstacle(pl, currentZ, randomLane, mateRoll) ==
  LET newObstacle == [id |-> pl.obstacleIdCounter, x |-> laneX(randomLane),
                      z |-> currentZ + spawnDistance, lane |-> randomLane]
      newMate     == [id |-> pl.mateIdCounter, x |-> laneX(randomLane),
                      z |-> currentZ + spawnDistance, lane |-> randomLane]
  IN  [pl EXCEPT !.obstacles = Append(@, newObstacle),
                 !.obstacleIdCounter = @ + 1,
                 !.mates = IF mateRoll THEN Append(@, newMate) ELSE @,
                 !.mateIdCounter = IF mateRoll THEN @ + 1 ELSE @]

\* spawnWallImage(currentZ)
spawnWallImage(pl, currentZ) ==
  [pl EXCEPT !.wallImages = Append(@, [id |-> pl.wallImageIdCounter,
                                       z |-> currentZ + wallImageDistance]),
             !.wallImageIdCounter = @ + 1]

\* prev.filter((e) => e.z > newZ - 20)
\* everything the player has passed evicted at once
cleanup_AtPlayer(list, newZ) == SelectSeq(list, LAMBDA e : e.z > newZ)

cleanup(list, newZ) == SelectSeq(list, LAMBDA e : e.z > newZ - cleanupDistance)

\* the new duration added to what is left of a running invulnerability
collectMate_Extends(pl, c, mateId) ==
  [pl EXCEPT !.mates = SelectSeq(@, LAMBDA m : m.id # mateId),
             !.isInvulnerable = TRUE,
             !.invulnerabilityEndTime =
                IF pl.isInvulnerable THEN @ + invulnerabilityDuration
                ELSE c.gameTime + invulnerabilityDuration]

\* the duration added in milliseconds, not converted to seconds
collectMate_Millis(pl, c, mateId) ==
  [pl EXCEPT !.mates = SelectSeq(@, LAMBDA m : m.id # mateId),
             !.isInvulnerable = TRUE,
             !.invulnerabilityEndTime = c.gameTime + 1000 * invulnerabilityDuration]

\* collectMate(mateId) at the clock's current game time
collectMate(pl, c, mateId) ==
  [pl EXCEPT !.mates = SelectSeq(@, LAMBDA m : m.id # mateId),
             !.isInvulnerable = TRUE,
             !.invulnerabilityEndTime = c.gameTime + invulnerabilityDuration]

\* playerSpeed moved per frame, whatever the frame's delta
movementSpeed_PerFrame(processedDelta) == (playerSpeedTenths * PosScale) \div 10

\* GAME_CONFIG.playerSpeed * processedDelta * 60
movementSpeed(processedDelta) ==
  (playerSpeedTenths * processedDelta * 60 * PosScale) \div (10 * TicksPerSecond)

\* the frame's delta as it comes
safeDelta_Uncapped(delta, recovering) == delta

\* isRecoveringFromFreeze ? Math.min(delta, 1/30) : delta
safeDelta(delta, recovering) ==
  IF recovering THEN Min(delta, recoveryDeltaCap) ELSE delta

\* currentX + (targetX - currentX) * lerpSpeed
lerpX(currentX, targetX, delta) ==
  currentX + TruncDiv((targetX - currentX) * lerpRate * delta, TicksPerSecond)

-----------------------------------------------------------------------------
(* Player.tsx and GameScene.tsx: the handlers.  A world w is the record of  *)
(* the clock, the value updateTime returned last, GameScene's state, the    *)
(* hand-control context and the Player's state.                             *)

\* the game as constructed
NewWorld == [clock |-> NewClock, result |-> NoResult, scene |-> NewScene,
             hand |-> NewHand, player |-> NewPlayer]

NoCollision == [collected |-> -1, gameOver |-> FALSE]

\* the collisions checked on every processed frame
collisionChecked_Always(r) == TRUE

\* if (!isRecoveringFromFreeze && checkCollisions(...))
collisionChecked(r) == ~r.isRecoveringFromFreeze

\* the useFrame callback, on the state of the render it closed over
frame(w, delta, randomLane, mateRoll) ==
  IF w.scene.isGameOver THEN w
  ELSE LET paused == setPaused(w.clock, w.scene.isPaused) IN
  IF w.scene.isPaused THEN [w EXCEPT !.clock = paused]
  ELSE LET timeResult == updateTime(paused, delta)
           c == timeResult.clock
           r == timeResult.result
       IN
  IF r.shouldSkipPhysics THEN [w EXCEPT !.clock = c, !.result = r]
  ELSE LET pl       == w.player
           newZ     == pl.positionZ + movementSpeed(r.processedDelta)
           terrain  == updateTerrain(pl.terrainSegments, pl.terrainIdCounter, newZ)
           lights   == updateTunnelLights(pl.tunnelLights, pl.lightIdCounter, newZ)
           newX     == lerpX(pl.meshX, pl.targetX, safeDelta(delta, r.isRecoveringFromFreeze))
           landed   == pl.isJumping /\ isEventComplete(c, pl.jumpStartTime, jumpDuration)
           expired  == pl.isInvulnerable /\ c.gameTime >= pl.invulnerabilityEndTime
           moved    == [pl EXCEPT
                          !.positionZ = newZ,
                          !.terrainSegments = terrain.list,
                          !.terrainIdCounter = terrain.counter,
                          !.tunnelLights = lights.list,
                          !.lightIdCounter = lights.counter,
                          !.meshX = newX,
                          !.isJumping = IF landed THEN FALSE ELSE @,
                          !.currentY = IF ~pl.isJumping THEN @
                                       ELSE IF landed THEN 0
                                       ELSE jumpArc(getEventProgress(c, pl.jumpStartTime, jumpDuration)),
                          !.isInvulnerable = IF expired THEN FALSE ELSE @,
                          !.invulnerabilityEndTime = IF expired THEN 0 ELSE @]
           spawnedO == IF hasTimeElapsed(c, pl.lastObstacleSpawn, spawnInterval)
                       THEN [spawnObstacle(moved, newZ, randomLane, mateRoll)
                               EXCEPT !.lastObstacleSpawn = c.gameTime]
                       ELSE moved
           spawnedW == IF hasTimeElapsed(c, pl.lastWallImageSpawn, wallImageInterval)
                       THEN [spawnWallImage(spawnedO, newZ)
                               EXCEPT !.lastWallImageSpawn = c.gameTime]
                       ELSE spawnedO
           cleaned  == [spawnedW EXCEPT !.obstacles = cleanup(@, newZ),
                                        !.mates = cleanup(@, newZ),
                                        !.wallImages = cleanup(@, newZ)]
           hit      == IF collisionChecked(r)
                       THEN checkCollisions(pl, newX, pl.currentY, newZ)
                       ELSE NoCollision
           final    == IF hit.collected # -1 THEN collectMate(cleaned, c, hit.collected)
                       ELSE cleaned
       IN  [w EXCEPT !.clock = c, !.result = r, !.player = final,
                     !.scene.isGameOver = hit.gameOver]

Keys == {"ArrowLeft", "ArrowRight", "ArrowUp", "Escape", "other"}

\* the arrows wrapping round from the outer lanes
keyLane_Wraps(key, currentLane) ==
  CASE key = "ArrowLeft" /\ currentLane = "center"  -> "right"
    [] key = "ArrowLeft" /\ currentLane = "left"    -> "center"
    [] key = "ArrowLeft" /\ currentLane = "right"   -> "left"
    [] key = "ArrowRight" /\ currentLane = "center" -> "left"
    [] key = "ArrowRight" /\ currentLane = "right"  -> "center"
    [] key = "ArrowRight" /\ currentLane = "left"   -> "right"
    [] OTHER -> currentLane

\* the lane an arrow key moves to from currentLane
keyLane(key, currentLane) ==
  CASE key = "ArrowLeft" /\ currentLane = "center"  -> "right"
    [] key = "ArrowLeft" /\ currentLane = "left"    -> "center"
    [] key = "ArrowRight" /\ currentLane = "center" -> "left"
    [] key = "ArrowRight" /\ currentLane = "right"  -> "center"
    [] OTHER -> currentLane

\* the deps of the keyboard effect: a change of any of them runs the effect's
\* cleanup, which clears the pending timeout
keyboardDeps(w) ==
  <<w.player.currentLane, w.player.isJumping, w.scene.isGameOver, w.scene.isPaused>>

\* the keydown listeners with Player's returning on isGameOver alone
handleKeyPress_WhilePaused(w, key) ==
  LET pl == w.player
      afterPlayer ==
        IF w.scene.isGameOver THEN pl
        ELSE [pl EXCEPT
                !.keyboardActive = TRUE,
                !.keyboardTimeout = TRUE,
                !.currentLane = keyLane(key, pl.currentLane),
                !.targetX = laneX(keyLane(key, pl.currentLane)),
                !.isJumping = IF key = "ArrowUp" THEN TRUE ELSE @,
                !.jumpStartTime = IF key = "ArrowUp" /\ ~pl.isJumping
                                  THEN w.clock.gameTime ELSE @]
  IN  [w EXCEPT !.player = afterPlayer,
                !.scene.isPaused = IF key = "Escape" /\ ~w.scene.isGameOver THEN ~@ ELSE @]

\* the keydown listeners with an arrow setting currentLane alone
handleKeyPress_LaneOnly(w, key) ==
  LET pl == w.player
      afterPlayer ==
        IF w.scene.isGameOver \/ w.scene.isPaused THEN pl
        ELSE [pl EXCEPT
                !.keyboardActive = TRUE,
                !.keyboardTimeout = TRUE,
                !.currentLane = keyLane(key, pl.currentLane),
                !.isJumping = IF key = "ArrowUp" THEN TRUE ELSE @,
                !.jumpStartTime = IF key = "ArrowUp" /\ ~pl.isJumping
                                  THEN w.clock.gameTime ELSE @]
  IN  [w EXCEPT !.player = afterPlayer,
                !.scene.isPaused = IF key = "Escape" /\ ~w.scene.isGameOver THEN ~@ ELSE @]

\* the keydown listeners of Player (handleKeyPress) and of GameScene
handleKeyPress(w, key) ==
  LET pl == w.player
      afterPlayer ==
        IF w.scene.isGameOver \/ w.scene.isPaused THEN pl
        ELSE [pl EXCEPT
                !.keyboardActive = TRUE,
                !.keyboardTimeout = TRUE,
                !.currentLane = keyLane(key, pl.currentLane),
                !.targetX = laneX(keyLane(key, pl.currentLane)),
                !.isJumping = IF key = "ArrowUp" THEN TRUE ELSE @,
                !.jumpStartTime = IF key = "ArrowUp" /\ ~pl.isJumping
                                  THEN w.clock.gameTime ELSE @]
  IN  [w EXCEPT !.player = afterPlayer,
                !.scene.isPaused = IF key = "Escape" /\ ~w.scene.isGameOver THEN ~@ ELSE @]

\* the callback of the keyboard timeout
keyboardTimeoutFires(w) ==
  [w EXCEPT !.player.keyboardActive = FALSE, !.player.keyboardTimeout = FALSE]

HandLanes == Lanes \cup {"none"}

\* no hand reported to the context as a hand in the center lane
updateHandState_NoHandIsCenter(w, lane, isClosed, debounceElapsed) ==
  LET changes == lane # w.hand.lastLaneRef /\ debounceElapsed
      seen    == IF lane = "none" THEN "center" ELSE lane
  IN  [w EXCEPT !.hand.lane = IF changes THEN seen ELSE @,
                !.hand.lastLaneRef = IF changes THEN lane ELSE @,
                !.hand.jump = isClosed]

\* updateHandState(lane, isClosed, ...) of the camera component;
\* debounceElapsed is  now - lastUpdateTimeRef.current > LANE_DEBOUNCE_MS
updateHandState(w, lane, isClosed, debounceElapsed) ==
  LET changes == lane # w.hand.lastLaneRef /\ debounceElapsed
  IN  [w EXCEPT !.hand.lane = IF changes THEN lane ELSE @,
                !.hand.lastLaneRef = IF changes THEN lane ELSE @,
                !.hand.jump = isClosed]

\* the guard without the keyboard's priority
gestureEnabled_NoKeyboardPriority(w) ==
  ~(w.scene.isGameOver \/ w.scene.isPaused)

\* the guard without the test of isGameOver
gestureEnabled_AfterGameOver(w) ==
  ~(w.scene.isPaused \/ w.player.keyboardActive)

\* the guard the two gesture effects return on
gestureEnabled(w) ==
  ~(w.scene.isGameOver \/ w.scene.isPaused \/ w.player.keyboardActive)

laneDeps(w) ==
  <<w.hand.lane, w.player.currentLane, w.scene.isGameOver, w.scene.isPaused,
    w.player.keyboardActive>>

jumpDeps(w) ==
  <<w.hand.jump, w.player.isJumping, w.scene.isGameOver, w.scene.isPaused,
    w.player.keyboardActive>>

\* the gesture lane effect sets the lane
gestureLaneFires(w) ==
  gestureEnabled(w) /\ w.hand.lane # "none" /\ w.hand.lane # w.player.currentLane

\* the gesture jump effect without its test of isJumping
gestureJumpFires_WhileJumping(w) ==
  gestureEnabled(w) /\ w.hand.jump

\* the gesture jump effect starts a jump
gestureJumpFires(w) ==
  gestureEnabled(w) /\ w.hand.jump /\ ~w.player.isJumping

clearTimeout(w) == [w EXCEPT !.player.keyboardTimeout = FALSE]

\* React's commit of the state a handler set (mid) over the state rendered
\* before it (pre), and then the commit of the state the effects set: every
\* effect whose deps changed runs, the keyboard effect's cleanup first
commit(pre, mid) ==
  LET cleaned == IF keyboardDeps(pre) # keyboardDeps(mid) THEN clearTimeout(mid) ELSE mid
      lane    == laneDeps(pre) # laneDeps(mid) /\ gestureLaneFires(mid)
      jump    == jumpDeps(pre) # jumpDeps(mid) /\ gestureJumpFires(mid)
      synced  == IF <<mid.scene, mid.player.positionZ>> # <<pre.scene, pre.player.positionZ>>
                 THEN setPaused(mid.clock, mid.scene.isPaused \/ mid.scene.isGameOver)
                 ELSE mid.clock
      restart == /\ <<mid.scene.isGameOver, mid.player.positionZ>>
                      # <<pre.scene.isGameOver, pre.player.positionZ>>
                 /\ ~mid.scene.isGameOver /\ mid.player.positionZ = 0
      set     == [cleaned EXCEPT
                    !.clock = IF restart THEN reset(synced) ELSE synced,
                    !.player.currentLane = IF lane THEN mid.hand.lane ELSE @,
                    !.player.targetX = IF lane THEN laneX(mid.hand.lane) ELSE @,
                    !.player.isJumping = IF jump THEN TRUE ELSE @,
                    !.player.jumpStartTime = IF jump THEN mid.clock.gameTime ELSE @]
  IN  [ world |-> IF keyboardDeps(cleaned) # keyboardDeps(set) THEN clearTimeout(set) ELSE set,
        gestureLane |-> lane,
        gestureJump |-> jump ]

\* no quiet frames to play
NoScript == [frames |-> 0, jumpAt |-> 0, pair |-> FALSE, lane |-> "center",
             mate |-> FALSE]

NoEvent == [kind |-> "none", arg |-> "none", gestureLane |-> FALSE, gestureJump |-> FALSE]

-----------------------------------------------------------------------------
(* The clock on its own: any caller, any order of calls *)

Init ==
  /\ clock = NewClock
  /\ result = NoResult
  /\ lastCall = [op |-> "new", arg |-> 0]
  /\ pausedCalls = 0
  /\ scene = NewScene
  /\ hand = NewHand
  /\ player = NewPlayer
  /\ twin = NewWorld
  /\ script = NoScript
  /\ event = NoEvent
  /\ timeLimit = 0
  /\ inputBudget = 0

UpdateTime ==
  \E rawDeltaTime \in RawDeltas :
    /\ clock.gameTime < MaxGameTime
    /\ clock' = updateTime(clock, rawDeltaTime).clock
    /\ result' = updateTime(clock, rawDeltaTime).result
    /\ lastCall' = [op |-> "updateTime", arg |-> rawDeltaTime]
    /\ pausedCalls' = IF clock.isPaused THEN Min(pausedCalls + 1, MaxPausedCalls)
                       ELSE IF lastCall = [op |-> "setPaused", arg |-> 0] THEN pausedCalls
                       ELSE 0
    /\ UNCHANGED gameVars

SetPaused ==
  \E paused \in BOOLEAN :
    /\ clock' = setPaused(clock, paused)
    /\ lastCall' = [op |-> "setPaused", arg |-> IF paused THEN 1 ELSE 0]
    /\ pausedCalls' = IF clock.isPaused THEN pausedCalls ELSE 0
    /\ UNCHANGED <<result, gameVars>>

Reset ==
  /\ clock' = reset(clock)
  /\ lastCall' = [op |-> "reset", arg |-> 0]
  /\ pausedCalls' = 0
  /\ UNCHANGED <<result, gameVars>>

Next == UpdateTime \/ SetPaused \/ Reset

Spec == Init /\ [][Next]_vars

-----------------------------------------------------------------------------
(* The clock of a session that is restarted, beside the clock of a session  *)
(* that was begun afresh at the restart and is given the same calls         *)

InitSession ==
  /\ clock = NewClock
  /\ result = NoResult
  /\ lastCall = [op |-> "new", arg |-> 0]
  /\ pausedCalls = 0
  /\ scene = NewScene
  /\ hand = NewHand
  /\ player = NewPlayer
  /\ twin = NewWorld
  /\ script = NoScript
  /\ event = NoEvent
  /\ timeLimit = MaxSessionTime
  /\ inputBudget = 0

SessionUpdate ==
  \E rawDeltaTime \in RawDeltas :
    /\ clock.gameTime < timeLimit
    /\ clock' = updateTime(clock, rawDeltaTime).clock
    /\ result' = updateTime(clock, rawDeltaTime).result
    /\ twin' = [twin EXCEPT !.clock = updateTime(twin.clock, rawDeltaTime).clock,
                            !.result = updateTime(twin.clock, rawDeltaTime).result]
    /\ lastCall' = [op |-> "updateTime", arg |-> rawDeltaTime]
    /\ UNCHANGED <<pausedCalls, scene, hand, player, script, event, timeLimit,
                   inputBudget>>

SessionPause ==
  \E paused \in BOOLEAN :
    /\ clock' = setPaused(clock, paused)
    /\ twin' = [twin EXCEPT !.clock = setPaused(twin.clock, paused)]
    /\ lastCall' = [op |-> "setPaused", arg |-> IF paused THEN 1 ELSE 0]
    /\ UNCHANGED <<result, pausedCalls, scene, hand, player, script, event,
                   timeLimit, inputBudget>>

\* reset() on the running clock; the other session starts with a new clock.
\* The event records whether the clock had been used.
SessionReset ==
  /\ clock' = reset(clock)
  /\ result' = NoResult
  /\ twin' = NewWorld
  /\ lastCall' = [op |-> "reset", arg |-> 0]
  /\ event' = [NoEvent EXCEPT !.kind = "restart",
                              !.arg = IF clock = NewClock THEN "new" ELSE "used"]
  /\ UNCHANGED <<pausedCalls, scene, hand, player, script, timeLimit, inputBudget>>

NextSession == SessionUpdate \/ SessionPause \/ SessionReset

SpecSession == InitSession /\ [][NextSession]_vars

-----------------------------------------------------------------------------
(* The two hand cameras: HandCameraImpl and HandCameraRefactored with its    *)
(* HandDetectionEngine, given the same detector results.  A wrist x is       *)
(* counted in 1/300 of the frame width, a fingertip distance in 1/1000.      *)

XScale == 3 * PosScale

deadZone == 21                  \* deadZone = 0.07
closureThreshold == 120         \* tips < 0.12
landmarkCount == 21             \* landmarks.length < 21

\* wrist positions on both sides of every lane border of either camera
WristXs == {50, 79, 90, 100, 110, 121, 150, 179, 190, 200, 210, 221, 250}

\* average fingertip-to-palm distances: a fist, the threshold, an open hand
TipDistances == {80, closureThreshold, 200}

NoHand == [present |-> FALSE, x |-> 0, tips |-> 0, landmarks |-> 0]

\* what the detector can deliver for a frame of the video
DetectorResults ==
  {NoHand} \cup [present : {TRUE}, x : WristXs, tips : TipDistances,
                 landmarks : {landmarkCount}]

NoReport == [lane |-> "none", isClosed |-> FALSE]

\* computeLane of HandCameraImpl: the frame cut in thirds
computeLaneImpl(normalizedX) ==
  IF 3 * normalizedX < XScale THEN "left"
  ELSE IF 3 * normalizedX < 2 * XScale THEN "center"
  ELSE "right"

\* what HandCameraImpl hands to onHandDetected
detectImpl(results) ==
  IF results.present
  THEN [lane |-> computeLaneImpl(results.x),
        isClosed |-> results.tips < closureThreshold]
  ELSE NoReport

\* computeLane of HandDetectionEngine: thirds with dead zones around the
\* borders, where it returns null
computeLaneEngine(normalizedX) ==
  IF 3 * normalizedX < XScale - 3 * deadZone THEN "left"
  ELSE IF 3 * normalizedX > 2 * XScale + 3 * deadZone THEN "right"
  ELSE IF /\ 3 * normalizedX >= XScale + 3 * deadZone
          /\ 3 * normalizedX <= 2 * XScale - 3 * deadZone THEN "center"
  ELSE "none"

estimateHandClosure(results) ==
  IF results.landmarks < landmarkCount THEN FALSE
  ELSE results.tips < closureThreshold

\* processResults of HandDetectionEngine: the engine's lastLane after the
\* call and what it hands to onDetection, which HandCameraRefactored passes
\* on to onHandDetected
processResults(lastLane, results, isMirrored, debounceElapsed) ==
  IF ~results.present
  THEN [lastLane |-> lastLane, report |-> NoReport]
  ELSE LET normalizedX == IF isMirrored THEN XScale - results.x ELSE results.x
           lane        == computeLaneEngine(normalizedX)
           kept        == IF lane # lastLane /\ debounceElapsed THEN lane
                          ELSE lastLane
       IN  [lastLane |-> kept,
            report   |-> [lane |-> kept, isClosed |-> estimateHandClosure(results)]]

InitVision ==
  /\ clock = NewClock
  /\ result = NoResult
  /\ lastCall = [op |-> "new", arg |-> 0]
  /\ pausedCalls = 0
  /\ scene = NewScene
  /\ hand = NewHand
  /\ player = NewPlayer
  /\ twin = NewWorld
  /\ script = NoScript
  /\ \E isMirrored \in BOOLEAN :
       event = [kind |-> "camera", isMirrored |-> isMirrored, results |-> NoHand,
                original |-> NoReport, refactored |-> NoReport]
  /\ timeLimit = 0
  /\ inputBudget = 0

\* one result of the detector, handled by both cameras; hand.lastLaneRef is
\* the engine's lastLane, hand.lane and hand.jump what HandCameraRefactored
\* sets in the context
Detection ==
  \E results \in DetectorResults, debounceElapsed \in BOOLEAN :
    LET processed == processResults(hand.lastLaneRef, results, event.isMirrored,
                                    debounceElapsed)
    IN  /\ hand' = [lane |-> processed.report.lane,
                    jump |-> processed.report.isClosed,
                    lastLaneRef |-> processed.lastLane]
        /\ event' = [kind |-> "detection", isMirrored |-> event.isMirrored,
                     results |-> results,
                     original |-> detectImpl(results),
                     refactored |-> processed.report]
        /\ UNCHANGED <<clock, result, lastCall, pausedCalls, scene, player, twin,
                       script, timeLimit, inputBudget>>

\* The detection loop in time, counted in milliseconds.

debounceMs == 100               \* DEFAULT_CONFIG.debounceMs
frameInterval == 40             \* 1000 / targetFPS, targetFPS: 25

\* Bound of the debounce specification: detections run up to this time.
MaxDetectTime == 400

\* the time from one detection to the next: a frame interval, or two
DetectionGaps == {frameInterval, 2 * frameInterval}

\* the time of the first detection, performance.now() counting from the
\* load of the page
FirstDetections == {frameInterval, 2 * debounceMs}

\* a hand in the left third, in the dead zone next to it, in the center, and
\* no hand
TimedResults ==
  {NoHand} \cup [present : {TRUE}, x : {50, 90, 150}, tips : {200},
                 landmarks : {landmarkCount}]

\* changedAt is the time of the last change of the lane reported and gap the
\* time between the last two changes (0 before the second change);
\* lastLaneAt and lastLaneGap are the same for the engine's lastLane
InitDebounce ==
  /\ clock = NewClock
  /\ result = NoResult
  /\ lastCall = [op |-> "new", arg |-> 0]
  /\ pausedCalls = 0
  /\ scene = NewScene
  /\ hand = NewHand
  /\ player = NewPlayer
  /\ twin = NewWorld
  /\ script = NoScript
  /\ \E first \in FirstDetections :
       event = [kind |-> "engine", now |-> 0, next |-> first, lastUpdateTime |-> 0,
                results |-> NoHand, reported |-> NoReport,
                changedAt |-> 0, gap |-> 0, lastLaneAt |-> 0, lastLaneGap |-> 0]
  /\ timeLimit = MaxDetectTime
  /\ inputBudget = 0

\* one pass of the detection loop at time event.next: processResults on
\* what the detector found, and the report to onDetection
TimedDetection ==
  \E results \in TimedResults, wait \in DetectionGaps :
    LET now       == event.next
        processed == processResults(hand.lastLaneRef, results, FALSE,
                                    now - event.lastUpdateTime > debounceMs)
        updated   == processed.lastLane # hand.lastLaneRef
        changed   == processed.report.lane # event.reported.lane
    IN  /\ event.kind = "engine"
        /\ now <= timeLimit
        /\ hand' = [lane |-> processed.report.lane,
                    jump |-> processed.report.isClosed,
                    lastLaneRef |-> processed.lastLane]
        /\ event' = [kind |-> "engine", now |-> now, next |-> now + wait,
                     lastUpdateTime |-> IF updated THEN now ELSE event.lastUpdateTime,
                     results |-> results,
                     reported |-> processed.report,
                     changedAt |-> IF changed THEN now ELSE event.changedAt,
                     gap |-> IF changed /\ event.changedAt > 0
                             THEN now - event.changedAt ELSE event.gap,
                     lastLaneAt |-> IF updated THEN now ELSE event.lastLaneAt,
                     lastLaneGap |-> IF updated /\ event.lastLaneAt > 0
                                     THEN now - event.lastLaneAt ELSE event.lastLaneGap]
        /\ UNCHANGED <<clock, result, lastCall, pausedCalls, scene, player, twin,
                       script, timeLimit, inputBudget>>

NextDebounce == TimedDetection

SpecDebounce == InitDebounce /\ [][NextDebounce]_vars

NextVision == Detection

SpecVision == InitVision /\ [][NextVision]_vars

-----------------------------------------------------------------------------
(* HandDetectionEngine: the detection loop and its stopping.  The engine    *)
(* runs the tasks-vision detector in a loop of its own (detectLoop) or the  *)
(* classic detector from the frames of camera_utils.  An await is a step    *)
(* of its own: what was awaited settles after whatever else the page does   *)
(* in between.                                                              *)

\* the engine after a successful initialize(): api is "classic" when
\* cameraInstance is set; queued is the requestAnimationFrame callback
\* pending, animationFrame the handle kept of one; inFlight the awaited
\* detectForVideo, sendInFlight the awaited send of the classic detector;
\* callbacks counts the calls of onDetection and late tells that one of
\* them came after stopDetection() or cleanup() had returned
NewEngine(api) ==
  [kind |-> "loop", api |-> api, phase |-> "initialized", detector |-> "open",
   isRunning |-> FALSE, queued |-> FALSE, animationFrame |-> FALSE,
   inFlight |-> FALSE, cameraOn |-> FALSE, sendInFlight |-> FALSE,
   stopped |-> "no", callbacks |-> 0, late |-> FALSE]

\* onDetection(...) as processResults calls it on every path
onDetection(e) ==
  [e EXCEPT !.callbacks = @ + 1, !.late = @ \/ e.stopped # "no"]

\* detect() up to its await: due is  now - lastFrameTime >= frameInterval,
\* ready is  video.readyState >= 2
detect(e, due, ready) ==
  IF ~e.isRunning \/ e.detector # "open" THEN e
  ELSE IF due /\ ready THEN [e EXCEPT !.inFlight = TRUE]
  ELSE [e EXCEPT !.queued = TRUE, !.animationFrame = TRUE]

\* detect() after its await: processResults when detectForVideo resolved,
\* the catch when it rejected, and the next requestAnimationFrame
detectResumes(e, resolved) ==
  LET processed == IF resolved THEN onDetection(e) ELSE e
  IN  [processed EXCEPT !.inFlight = FALSE, !.queued = TRUE, !.animationFrame = TRUE]

\* the onResults callback that startDetection registers
onResults(e) == IF ~e.isRunning THEN e ELSE onDetection(e)

startDetection(e, due, ready) ==
  IF e.detector # "open" THEN e
  ELSE IF e.api = "classic"
  THEN [e EXCEPT !.isRunning = TRUE, !.cameraOn = TRUE]
  ELSE detect([e EXCEPT !.isRunning = TRUE], due, ready)

\* cancelAnimationFrame reaches the callback only while it is pending
stopDetection(e) ==
  [e EXCEPT !.isRunning = FALSE,
            !.queued = IF e.animationFrame THEN FALSE ELSE @,
            !.animationFrame = FALSE,
            !.cameraOn = FALSE]

cleanupEngine(e) ==
  [stopDetection(e) EXCEPT !.detector = "closed", !.api = "tasks"]

InitLoop ==
  /\ clock = NewClock
  /\ result = NoResult
  /\ lastCall = [op |-> "new", arg |-> 0]
  /\ pausedCalls = 0
  /\ scene = NewScene
  /\ hand = NewHand
  /\ player = NewPlayer
  /\ twin = NewWorld
  /\ script = NoScript
  /\ \E api \in {"tasks", "classic"} : event = NewEngine(api)
  /\ timeLimit = 0
  /\ inputBudget = MaxLoopFrames

LoopStep(e) ==
  /\ event.kind = "loop"
  /\ event' = e
  /\ UNCHANGED <<clock, result, lastCall, pausedCalls, scene, hand, player, twin,
                 script, timeLimit>>

StartDetection ==
  \E due, ready \in BOOLEAN :
    /\ event.phase = "initialized"
    /\ LoopStep([startDetection(event, due, ready) EXCEPT !.phase = "started"])
    /\ UNCHANGED inputBudget

\* the browser runs the pending animation-frame callback
AnimationFrame ==
  \E due, ready \in BOOLEAN :
    /\ event.queued
    /\ inputBudget > 0
    /\ inputBudget' = inputBudget - 1
    /\ LoopStep(detect([event EXCEPT !.queued = FALSE], due, ready))

\* the awaited detectForVideo settles
DetectionSettles ==
  \E resolved \in BOOLEAN :
    /\ event.inFlight
    /\ LoopStep(detectResumes(event, resolved))
    /\ UNCHANGED inputBudget

\* onFrame of camera_utils: a frame is sent to the classic detector
CameraFrame ==
  /\ event.cameraOn /\ ~event.sendInFlight
  /\ inputBudget > 0
  /\ inputBudget' = inputBudget - 1
  /\ LoopStep(IF event.detector = "open" /\ event.isRunning
              THEN [event EXCEPT !.sendInFlight = TRUE] ELSE event)

\* the classic detector delivers the results of a frame sent to it
ResultsDelivered ==
  /\ event.sendInFlight
  /\ LoopStep(onResults([event EXCEPT !.sendInFlight = FALSE]))
  /\ UNCHANGED inputBudget

StopDetection ==
  /\ event.phase = "started" /\ event.stopped = "no"
  /\ LoopStep([stopDetection(event) EXCEPT !.stopped = "stopDetection"])
  /\ UNCHANGED inputBudget

Cleanup ==
  /\ event.phase = "started" /\ event.stopped # "cleanup"
  /\ LoopStep([cleanupEngine(event) EXCEPT !.stopped = "cleanup"])
  /\ UNCHANGED inputBudget

NextLoop ==
  \/ StartDetection \/ AnimationFrame \/ DetectionSettles \/ CameraFrame
  \/ ResultsDelivered \/ StopDetection \/ Cleanup

SpecLoop == InitLoop /\ [][NextLoop]_vars

-----------------------------------------------------------------------------
(* The camera components: the asynchronous initialization started by the    *)
(* mount effect, and the effect's cleanup, which runs at the unmount        *)
(* wherever the initialization has got to.  pc is the await the             *)
(* initialization is at.                                                    *)

Components == {"HandCameraRefactored", "HandCameraImpl"}

\* the component as its effect leaves it, at  await getUserMedia(...):
\* stream is the camera's MediaStream and held tells that the cleanup can
\* reach it (CameraController.stream, or the effect's variable stream);
\* engineRef is detectionEngineRef.current, instances the effect's
\* detectionInstances; detecting tells that detection is started (the
\* engine's isRunning, or the started camera_utils instance); unmountedAt is
\* the await at which the cleanup ran; handled counts the detections passed
\* on to the context and to onHandDetected
Mounted(component) ==
  [kind |-> "mount", component |-> component, pc |-> "getUserMedia",
   mounted |-> TRUE, unmountedAt |-> "never", stream |-> "none", held |-> FALSE,
   engineRef |-> FALSE, detector |-> "none", detecting |-> FALSE,
   instances |-> FALSE, error |-> FALSE, handled |-> 0]

\* handleDetection of HandCameraRefactored returns when the component is
\* unmounted; the onResults callback of HandCameraImpl has no such test
detectionHandled(c) ==
  IF c.component = "HandCameraRefactored" /\ ~c.mounted THEN c
  ELSE [c EXCEPT !.handled = @ + 1]

\* the catch blocks and failure returns: setError(...) and no further step
failed(c) == [c EXCEPT !.pc = "done", !.error = TRUE]

\* step 6 of initializeSystem, reached when initialize() returned true:
\* detectionEngineRef.current.startDetection(...), a TypeError caught by the
\* catch of initializeSystem when the ref has been cleared
startSystem(c) ==
  IF c.engineRef THEN [c EXCEPT !.pc = "done", !.detecting = TRUE]
  ELSE failed(c)

\* the cleanup returned by the effect of HandCameraRefactored:
\* engine.cleanup() when the ref is set, and CameraController.stopCamera()
cleanupRefactored(c) ==
  [c EXCEPT !.mounted = FALSE,
            !.unmountedAt = c.pc,
            !.detecting = IF c.engineRef THEN FALSE ELSE @,
            !.detector = IF c.engineRef /\ @ = "open" THEN "closed" ELSE @,
            !.engineRef = FALSE,
            !.stream = IF c.held THEN "stopped" ELSE @,
            !.held = FALSE]

\* the cleanup returned by the main effect of HandCameraImpl
cleanupImpl(c) ==
  [c EXCEPT !.mounted = FALSE,
            !.unmountedAt = c.pc,
            !.stream = IF c.held THEN "stopped" ELSE @,
            !.detector = IF c.instances THEN "closed" ELSE @,
            !.detecting = IF c.instances THEN FALSE ELSE @]

InitMount ==
  /\ clock = NewClock
  /\ result = NoResult
  /\ lastCall = [op |-> "new", arg |-> 0]
  /\ pausedCalls = 0
  /\ scene = NewScene
  /\ hand = NewHand
  /\ player = NewPlayer
  /\ twin = NewWorld
  /\ script = NoScript
  /\ \E component \in Components : event = Mounted(component)
  /\ timeLimit = 0
  /\ inputBudget = MaxMountDetections

MountStep(pc, c) ==
  /\ event.kind = "mount" /\ event.pc = pc
  /\ event' = c
  /\ UNCHANGED <<clock, result, lastCall, pausedCalls, scene, hand, player, twin,
                 script, timeLimit>>

\* getUserMedia settles: CameraController keeps the stream in this.stream,
\* startCamera of HandCameraImpl in a variable of its own
UserMediaSettles ==
  \E granted \in BOOLEAN :
    MountStep("getUserMedia",
      IF ~granted THEN failed(event)
      ELSE [event EXCEPT !.pc = "metadata", !.stream = "live",
                         !.held = event.component = "HandCameraRefactored"])
    /\ UNCHANGED inputBudget

\* loadedmetadata, or the 2 s timeout
MetadataSettles ==
  /\ MountStep("metadata", [event EXCEPT !.pc = "play"])
  /\ UNCHANGED inputBudget

\* video.play() settles. HandCameraRefactored goes on to create the engine
\* and to initialize it; HandCameraImpl assigns the stream to the effect's
\* variable and goes on if (stream && running)
PlaySettles ==
  \E played \in BOOLEAN :
    /\ UNCHANGED inputBudget
    /\ MountStep("play",
      IF ~played THEN failed(event)
      ELSE IF event.component = "HandCameraRefactored"
      THEN [event EXCEPT !.pc = "tasksImport", !.engineRef = TRUE]
      ELSE [event EXCEPT !.held = TRUE,
                         !.pc = IF event.mounted THEN "classicImport" ELSE "done"])

\* the awaits of initializeTasksVision: the import, the fileset and
\* createFromOptions, which sets this.handDetector; a failure falls back to
\* the classic detector
TasksVisionSettles ==
  \E pc \in {"tasksImport", "fileset", "createDetector"}, loaded \in BOOLEAN :
    /\ UNCHANGED inputBudget
    /\ MountStep(pc,
      IF ~loaded THEN [event EXCEPT !.pc = "classicImport"]
      ELSE IF pc = "tasksImport" THEN [event EXCEPT !.pc = "fileset"]
      ELSE IF pc = "fileset" THEN [event EXCEPT !.pc = "createDetector"]
      ELSE startSystem([event EXCEPT !.detector = "open"]))

\* the imports of the classic detector settle. The engine creates the
\* detector and returns true; HandCameraImpl creates it, returns if the
\* video element is gone (the ref of an unmounted component is null) and
\* otherwise starts the camera_utils instance and awaits it
ClassicImportSettles ==
  \E loaded \in BOOLEAN :
    /\ UNCHANGED inputBudget
    /\ MountStep("classicImport",
      IF ~loaded THEN failed(event)
      ELSE IF event.component = "HandCameraRefactored"
      THEN startSystem([event EXCEPT !.detector = "open"])
      ELSE IF ~event.mounted THEN [event EXCEPT !.detector = "open", !.pc = "done"]
      ELSE [event EXCEPT !.detector = "open", !.detecting = TRUE,
                         !.pc = "cameraStart"])

\* cameraInstance.start() settles: the instances are returned to the effect
CameraStartSettles ==
  \E started \in BOOLEAN :
    /\ UNCHANGED inputBudget
    /\ MountStep("cameraStart",
      IF started THEN [event EXCEPT !.pc = "done", !.instances = TRUE]
      ELSE failed(event))

\* the component unmounts: the cleanup of the effect
Unmount ==
  /\ event.kind = "mount" /\ event.mounted
  /\ MountStep(event.pc, IF event.component = "HandCameraRefactored"
                         THEN cleanupRefactored(event) ELSE cleanupImpl(event))
  /\ UNCHANGED inputBudget

\* the detection that is running reports to the component's callback
DetectionReported ==
  /\ event.kind = "mount" /\ event.detecting
  /\ inputBudget > 0
  /\ inputBudget' = inputBudget - 1
  /\ MountStep(event.pc, detectionHandled(event))

NextMount ==
  \/ UserMediaSettles \/ MetadataSettles \/ PlaySettles \/ TasksVisionSettles
  \/ ClassicImportSettles \/ CameraStartSettles \/ Unmount \/ DetectionReported

SpecMount == InitMount /\ [][NextMount]_vars

-----------------------------------------------------------------------------
(* The timed-event helpers on their own: any start time, any length, read  *)
(* at any game time                                                         *)

\* what the three helpers answer for the event (startTime, length) on clock c
timedEvent(c, from, count, startTime, length) ==
  [ kind       |-> "timer",
    from       |-> from,
    count      |-> count,
    startTime  |-> startTime,
    length     |-> length,
    hasElapsed |-> hasTimeElapsed(c, startTime, length),
    progress   |-> getEventProgress(c, startTime, length),
    complete   |-> isEventComplete(c, startTime, length) ]

InitTimer ==
  /\ \E gameTime \in InitialTimes :
       clock = [NewClock EXCEPT !.gameTime = gameTime]
  /\ \E startTime \in StartTimes, length \in EventLengths :
       event = timedEvent(clock, clock.gameTime, 0, startTime, length)
  /\ result = NoResult
  /\ lastCall = [op |-> "new", arg |-> 0]
  /\ pausedCalls = 0
  /\ scene = NewScene
  /\ hand = NewHand
  /\ player = NewPlayer
  /\ twin = NewWorld
  /\ script = NoScript
  /\ timeLimit = MaxTimerTime
  /\ inputBudget = 0

\* game time moves on by the smoothed deltas of the frames played in between
\* and the helpers are asked again
AdvanceGameTime ==
  \E step \in TimerSteps :
    /\ clock.gameTime + step <= timeLimit
    /\ clock' = [clock EXCEPT !.gameTime = @ + step]
    /\ event' = timedEvent(clock', event.from, event.count + 1,
                           event.startTime, event.length)
    /\ UNCHANGED <<result, lastCall, pausedCalls, scene, hand, player, twin,
                   script, timeLimit, inputBudget>>

NextTimer == AdvanceGameTime

SpecTimer == InitTimer /\ [][NextTimer]_vars

-----------------------------------------------------------------------------
(* The clock at a steady frame rate, beside a clock at 60 FPS that has run  *)
(* for the same real time                                                   *)

RECURSIVE played(_, _, _)
\* clock c after so many frames of one raw delta
played(c, rawDeltaTime, frames) ==
  IF frames = 0 THEN c
  ELSE played(updateTime(c, rawDeltaTime).clock, rawDeltaTime, frames - 1)

InitRate ==
  /\ clock = NewClock
  /\ result = NoResult
  /\ lastCall = [op |-> "new", arg |-> 0]
  /\ pausedCalls = 0
  /\ scene = NewScene
  /\ hand = NewHand
  /\ player = NewPlayer
  /\ twin = NewWorld
  /\ script = NoScript
  /\ \E rawDeltaTime \in SteadyDeltas :
       event = [kind |-> "rate", rawDelta |-> rawDeltaTime, realTime |-> 0]
  /\ timeLimit = MaxRealTime
  /\ inputBudget = 0

\* one frame at the steady rate; the clock at 60 FPS plays the frames that
\* fit into the same real time
SteadyFrame ==
  /\ event.kind = "rate"
  /\ event.realTime + event.rawDelta <= timeLimit
  /\ clock' = updateTime(clock, event.rawDelta).clock
  /\ result' = updateTime(clock, event.rawDelta).result
  /\ lastCall' = [op |-> "updateTime", arg |-> event.rawDelta]
  /\ twin' = [twin EXCEPT !.clock = played(@, ReferenceDelta,
                                           event.rawDelta \div ReferenceDelta)]
  /\ event' = [event EXCEPT !.realTime = @ + event.rawDelta]
  /\ UNCHANGED <<pausedCalls, scene, hand, player, script, timeLimit,
                 inputBudget>>

NextRate == SteadyFrame

SpecRate == InitRate /\ [][NextRate]_vars

-----------------------------------------------------------------------------
(* The clock with its FPS diagnostics.  Real time is counted in              *)
(* milliseconds, as performance.now() gives it; a frame's raw delta is the   *)
(* real time since the frame before.                                         *)

fpsWindow == 1000               \* now - this.lastRealTime > 1000
fpsHistoryLimit == 10           \* this.fpsHistory.length > 10

\* frameCount, fpsHistory, currentFPS and lastRealTime as constructed (at
\* real time 0), with the count of the samples pushed so far
NewDiagnostics ==
  [now |-> 0, lastRealTime |-> 0, frameCount |-> 0, currentFPS |-> 60,
   fpsHistory |-> <<>>, pushes |-> 0]

realMillis(rawDeltaTime) == (rawDeltaTime * 1000) \div TicksPerSecond

\* the diagnostics after updateTime(rawDeltaTime) on clock c: a paused or
\* extreme call returns before them
trackFrame(d, c, rawDeltaTime) ==
  LET now   == d.now + realMillis(rawDeltaTime)
      count == d.frameCount + 1
      pushed == Append(d.fpsHistory, count)
  IN  IF c.isPaused \/ isExtremeFrame(rawDeltaTime) THEN [d EXCEPT !.now = now]
      ELSE IF now - d.lastRealTime > fpsWindow
      THEN [now |-> now, lastRealTime |-> now, frameCount |-> 0,
            currentFPS |-> count,
            fpsHistory |-> IF Len(pushed) > fpsHistoryLimit THEN Tail(pushed)
                           ELSE pushed,
            pushes |-> d.pushes + 1]
      ELSE [d EXCEPT !.now = now, !.frameCount = count]

RECURSIVE stuttered(_, _)
\* clock and diagnostics after so many seconds of play in which every other
\* frame is an extreme one of 5 s and the one after it takes 0.2 s
stuttered(s, seconds) ==
  IF seconds = 0 THEN s
  ELSE LET frozen == [clock |-> updateTime(s.clock, 5 * TicksPerSecond).clock,
                      diag  |-> trackFrame(s.diag, s.clock, 5 * TicksPerSecond)]
       IN  stuttered([clock |-> updateTime(frozen.clock, EXTREME_DELTA_THRESHOLD).clock,
                      diag  |-> trackFrame(frozen.diag, frozen.clock,
                                           EXTREME_DELTA_THRESHOLD)],
                     seconds - 1)

InitDiag ==
  /\ \E seconds \in {0, MaxDiagSeconds} :
       LET s == stuttered([clock |-> NewClock, diag |-> NewDiagnostics], seconds)
       IN  /\ clock = s.clock
           /\ event = [kind |-> "diagnostics", diag |-> s.diag]
  /\ result = NoResult
  /\ lastCall = [op |-> "new", arg |-> 0]
  /\ pausedCalls = 0
  /\ scene = NewScene
  /\ hand = NewHand
  /\ player = NewPlayer
  /\ twin = NewWorld
  /\ script = NoScript
  /\ timeLimit = 0
  /\ inputBudget = MaxDiagFrames

\* updateTime(rawDeltaTime) with its diagnostics
TrackedUpdate ==
  \E rawDeltaTime \in RawDeltas :
    /\ event.kind = "diagnostics"
    /\ inputBudget > 0
    /\ inputBudget' = inputBudget - 1
    /\ clock' = updateTime(clock, rawDeltaTime).clock
    /\ result' = updateTime(clock, rawDeltaTime).result
    /\ lastCall' = [op |-> "updateTime", arg |-> rawDeltaTime]
    /\ event' = [event EXCEPT !.diag = trackFrame(@, clock, rawDeltaTime)]
    /\ UNCHANGED <<pausedCalls, scene, hand, player, twin, script, timeLimit>>

NextDiag == TrackedUpdate

SpecDiag == InitDiag /\ [][NextDiag]_vars

-----------------------------------------------------------------------------
(* A clock held at one frame delta, after a history of frames at another    *)
(* (deltas are whole ticks and the mean of five equal entries is that entry; *)
(* the rounding of the sum of doubles is not modelled)                       *)

\* the deltas that are not extreme: 0, 1/60 s, 1/30 s, 0.05 s, 0.1 s, 0.15 s
\* and 0.2 s
SustainedDeltas == {0, 60, 120, 180, 360, 540, 720}

\* the clock starts new, or with a history filled at the delta `before`
InitSteady ==
  /\ \E before \in SustainedDeltas, rawDeltaTime \in SustainedDeltas,
        filled \in {0, SMOOTHING_SAMPLES} :
       /\ clock = played(NewClock, before, filled)
       /\ event = [kind |-> "steady", before |-> IF filled = 0 THEN rawDeltaTime ELSE before,
                   rawDelta |-> rawDeltaTime, frames |-> 0]
  /\ result = NoResult
  /\ lastCall = [op |-> "new", arg |-> 0]
  /\ pausedCalls = 0
  /\ scene = NewScene
  /\ hand = NewHand
  /\ player = NewPlayer
  /\ twin = NewWorld
  /\ script = NoScript
  /\ timeLimit = 0
  /\ inputBudget = 0

\* one more frame at the sustained delta
SustainedFrame ==
  /\ event.kind = "steady"
  /\ event.frames < MaxSteadyFrames
  /\ clock' = updateTime(clock, event.rawDelta).clock
  /\ result' = updateTime(clock, event.rawDelta).result
  /\ lastCall' = [op |-> "updateTime", arg |-> event.rawDelta]
  /\ event' = [event EXCEPT !.frames = @ + 1]
  /\ UNCHANGED <<pausedCalls, scene, hand, player, twin, script, timeLimit,
                 inputBudget>>

NextSteady == SustainedFrame

SpecSteady == InitSteady /\ [][NextSteady]_vars

-----------------------------------------------------------------------------
(* The game: frames, key presses, hand detections and the keyboard timeout, *)
(* each handler taken with the React commits that follow it                 *)

World == [clock |-> clock, result |-> result, scene |-> scene, hand |-> hand,
          player |-> player]

\* the variables after a handler took World to mid
Handled(mid, kind, arg) ==
  LET done == commit(World, mid)
  IN  /\ clock' = done.world.clock
      /\ result' = done.world.result
      /\ scene' = done.world.scene
      /\ hand' = done.world.hand
      /\ player' = done.world.player
      /\ event' = [kind |-> kind, arg |-> arg, gestureLane |-> done.gestureLane,
                   gestureJump |-> done.gestureJump]
      /\ UNCHANGED <<lastCall, pausedCalls>>

\* the frame spawns an obstacle, so that Math.random is drawn
spawnDue(w, delta) ==
  /\ ~w.scene.isGameOver /\ ~w.scene.isPaused
  /\ LET timeResult == updateTime(setPaused(w.clock, FALSE), delta)
     IN  /\ ~timeResult.result.shouldSkipPhysics
         /\ hasTimeElapsed(timeResult.clock, w.player.lastObstacleSpawn, spawnInterval)

\* a late frame in the run that is on time
LateDelta == 3 * MAX_DELTA_TIME

\* a late frame counts against the budget of disturbances, as an input does
frameCost(delta) == IF delta > MAX_DELTA_TIME THEN 1 ELSE 0

Frame ==
  \E delta \in FrameDeltas :
    \E randomLane \in IF spawnDue(World, delta) THEN Lanes ELSE {"center"},
       mateRoll \in IF spawnDue(World, delta) THEN BOOLEAN ELSE {FALSE} :
      /\ script.frames = 0
      /\ clock.gameTime < timeLimit
      /\ inputBudget >= frameCost(delta)
      /\ inputBudget' = inputBudget - frameCost(delta)
      /\ Handled(frame(World, delta, randomLane, mateRoll), "frame", delta)
      /\ UNCHANGED <<twin, script, timeLimit>>

KeyDown ==
  \E key \in Keys :
    /\ script.frames = 0
    /\ inputBudget > 0
    /\ inputBudget' = inputBudget - 1
    /\ Handled(handleKeyPress(World, key), "key", key)
    /\ UNCHANGED <<twin, script, timeLimit>>

KeyboardTimeout ==
  /\ script.frames = 0
  /\ player.keyboardTimeout
  /\ Handled(keyboardTimeoutFires(World), "timeout", "none")
  /\ UNCHANGED <<twin, script, timeLimit, inputBudget>>

HandDetected ==
  \E lane \in HandLanes, isClosed \in BOOLEAN, debounceElapsed \in BOOLEAN :
    /\ script.frames = 0
    /\ inputBudget > 0
    /\ inputBudget' = inputBudget - 1
    /\ Handled(updateHandState(World, lane, isClosed, debounceElapsed), "hand", lane)
    /\ UNCHANGED <<twin, script, timeLimit>>

\* handleRestart: the clock is reset and the page reloaded; the new game is
\* not followed further
Restart ==
  /\ scene.isGameOver
  /\ clock' = reset(clock)
  /\ result' = NoResult
  /\ scene' = NewScene
  /\ hand' = NewHand
  /\ player' = NewPlayer
  /\ event' = [NoEvent EXCEPT !.kind = "restart"]
  /\ timeLimit' = 0
  /\ UNCHANGED <<lastCall, pausedCalls, twin, script, inputBudget>>

\* the game as constructed
NewGame ==
  /\ clock = NewClock
  /\ result = NoResult
  /\ lastCall = [op |-> "new", arg |-> 0]
  /\ pausedCalls = 0
  /\ scene = NewScene
  /\ hand = NewHand
  /\ player = NewPlayer
  /\ twin = NewWorld
  /\ event = NoEvent

\* a frame of any raw delta at the start of a game, before the first spawn
AnyFrame ==
  \E delta \in RawDeltas :
    /\ inputBudget > 0
    /\ inputBudget' = inputBudget - 1
    /\ Handled(frame(World, delta, "center", FALSE), "frame", delta)
    /\ UNCHANGED <<twin, script, timeLimit>>

\* an arrow key for a lane
LaneKey ==
  \E key \in {"ArrowLeft", "ArrowRight"} :
    /\ inputBudget > 0
    /\ inputBudget' = inputBudget - 1
    /\ Handled(handleKeyPress(World, key), "key", key)
    /\ UNCHANGED <<twin, script, timeLimit>>

NextMove == AnyFrame \/ LaneKey

\* the first frames of a game at any frame rate, with lane changes
InitMove ==
  NewGame /\ script = NoScript /\ timeLimit = 0 /\ inputBudget = MaxMoveFrames

SpecMove == InitMove /\ [][NextMove]_vars

NextInput == Frame \/ KeyDown \/ KeyboardTimeout \/ HandDetected

\* the first frames of a game, with any two inputs
InitInput ==
  NewGame /\ script = NoScript /\ timeLimit = MaxInputTime /\ inputBudget = MaxInputs

SpecInput == InitInput /\ [][NextInput]_vars

\* a game run past the end of a jump, with one input
InitJump ==
  NewGame /\ script = NoScript /\ timeLimit = MaxJumpTime /\ inputBudget = MaxJumpInputs

SpecJump == InitJump /\ [][NextInput]_vars

\* a game in which ArrowUp is pressed after the first frame, run past the end
\* of that jump with two inputs
InitAir ==
  /\ NewGame
  /\ script = [NoScript EXCEPT !.frames = 2, !.jumpAt = 1]
  /\ timeLimit = MaxAirTime
  /\ inputBudget = MaxAirInputs

\* a frame of the quiet start of a run, in the twin a late frame: every
\* obstacle is spawned in script.lane and with the mate roll script.mate
WarmUpFrame ==
  /\ script.frames > 0
  /\ script.frames # script.jumpAt
  /\ Handled(frame(World, MAX_DELTA_TIME, script.lane, script.mate), "frame",
             MAX_DELTA_TIME)
  /\ twin' = IF script.pair
             THEN commit(twin, frame(twin, LateDelta, script.lane, script.mate)).world
             ELSE twin
  /\ script' = [script EXCEPT !.frames = @ - 1]
  /\ UNCHANGED <<timeLimit, inputBudget>>

\* the ArrowUp of the quiet start, pressed when script.jumpAt frames remain
WarmUpJump ==
  /\ script.frames > 0
  /\ script.frames = script.jumpAt
  /\ Handled(handleKeyPress(World, "ArrowUp"), "key", "ArrowUp")
  /\ twin' = IF script.pair
             THEN commit(twin, handleKeyPress(twin, "ArrowUp")).world
             ELSE twin
  /\ script' = [script EXCEPT !.jumpAt = 0]
  /\ UNCHANGED <<timeLimit, inputBudget>>

\* the quiet starts of the run: up to shortly before the first obstacle, and,
\* with a jump over the first obstacle, up to shortly before the second, up
\* to the landing from that jump, up to shortly before the invulnerability
\* of the first mate runs out, or, in mid-jump, up to the first mate
Scripts == {[frames |-> WarmUpFrames, jumpAt |-> 0],
            [frames |-> WarmUpFrames + ApproachFrames,
             jumpAt |-> ApproachFrames - 1],
            [frames |-> RegrantFrames,
             jumpAt |-> RegrantFrames - WarmUpFrames - 1],
            [frames |-> ExpiryFrames,
             jumpAt |-> ExpiryFrames - WarmUpFrames],
            [frames |-> WarmUpFrames + ReachFrames,
             jumpAt |-> ReachFrames]}

\* a game that starts quietly and is then followed through frames of every
\* kind and key presses
InitRun ==
  /\ NewGame
  /\ \E randomLane \in Lanes, mateRoll \in BOOLEAN, start \in Scripts :
       /\ script = [frames |-> start.frames, jumpAt |-> start.jumpAt,
                    pair |-> FALSE, lane |-> randomLane, mate |-> mateRoll]
       /\ timeLimit = start.frames * MAX_DELTA_TIME + MaxRunTime
  /\ inputBudget = MaxRunKeys

\* the shipped GameScene mounts a camera component that does not feed the
\* hand-control context: the run is steered by the keyboard alone
NextRun == WarmUpFrame \/ WarmUpJump \/ Frame \/ KeyDown \/ KeyboardTimeout \/ Restart

SpecRun == InitRun /\ [][NextRun]_vars

\* a game that jumps into the first mate and is then left to its frames, which
\* the renderer keeps calling, until after the invulnerability has run out
InitShield ==
  /\ NewGame
  /\ \E randomLane \in Lanes, mateRoll \in BOOLEAN :
       script = [frames |-> ExpiryFrames, jumpAt |-> ExpiryFrames - WarmUpFrames,
                 pair |-> FALSE, lane |-> randomLane, mate |-> mateRoll]
  /\ timeLimit = ExpiryFrames * MAX_DELTA_TIME + MaxRunTime
  /\ inputBudget = MaxRunKeys

NextShield == WarmUpFrame \/ WarmUpJump \/ Frame

\* a frame that changes the state can be taken: the enabling condition of
\* NextShield
FrameDue ==
  \/ script.frames > 0
  \/ clock.gameTime < timeLimit /\ ~scene.isGameOver /\ ~scene.isPaused

\* the renderer calls the frame callback on every animation frame: a frame
\* that is due is not put off for ever (weak fairness of NextShield, with
\* FrameDue for its enabling condition)
FramesKeepComing == []<>(~FrameDue)

SpecShield == InitShield /\ [][NextShield]_vars

NextAir ==
  WarmUpFrame \/ WarmUpJump \/ Frame \/ KeyDown \/ KeyboardTimeout \/ HandDetected

SpecAir == InitAir /\ [][NextAir]_vars

\* a game that starts quietly, runs into the first obstacle or past it, and is
\* given key presses and hand detections before and after its end
InitOver ==
  /\ NewGame
  /\ \E randomLane \in Lanes, mateRoll \in BOOLEAN :
       script = [frames |-> WarmUpFrames, jumpAt |-> 0, pair |-> FALSE,
                 lane |-> randomLane, mate |-> mateRoll]
  /\ timeLimit = WarmUpFrames * MAX_DELTA_TIME + MaxOverTime
  /\ inputBudget = MaxOverInputs

NextOver ==
  WarmUpFrame \/ Frame \/ KeyDown \/ KeyboardTimeout \/ HandDetected \/ Restart

SpecOver == InitOver /\ [][NextOver]_vars

\* a game about to end, or a new game with the inputs to pause it, to steer
\* by hand while it is paused and to resume it
InitHalt ==
  \/ InitOver
  \/ NewGame /\ script = NoScript /\ timeLimit = MaxHaltTime
             /\ inputBudget = MaxHaltInputs

NextHalt == WarmUpFrame \/ Frame \/ KeyDown \/ KeyboardTimeout \/ HandDetected

SpecHalt == InitHalt /\ [][NextHalt]_vars

-----------------------------------------------------------------------------
(* Two runs of one game: the same keys and the same draws of Math.random,   *)
(* frames of 0.05 s in the first run and late frames, but for a few, in the *)
(* second. The clock clamps both to 0.05 s of game time.                    *)

PairDeltas == {MAX_DELTA_TIME, LateDelta}

\* the quiet starts of the pair: up to shortly before the first obstacle, the
\* same with a jump about to end, and, with a jump through the first mate, up
\* to shortly before the invulnerability it gave runs out
PairScripts == {[frames |-> PairFrames, jumpAt |-> 0],
                [frames |-> PairFrames, jumpAt |-> LandFrames],
                [frames |-> ExpiryFrames, jumpAt |-> ExpiryFrames - WarmUpFrames]}

InitPair ==
  /\ NewGame
  /\ \E randomLane \in Lanes, mateRoll \in BOOLEAN, start \in PairScripts :
       /\ script = [frames |-> start.frames, jumpAt |-> start.jumpAt,
                    pair |-> TRUE, lane |-> randomLane, mate |-> mateRoll]
       /\ timeLimit = start.frames * MAX_DELTA_TIME + MaxPairTime
  /\ inputBudget = MaxPairKeys

\* one frame in each run
PairFrame ==
  \E twinDelta \in PairDeltas :
    LET draws == spawnDue(World, MAX_DELTA_TIME) \/ spawnDue(twin, twinDelta)
        cost  == 1 - frameCost(twinDelta)
    IN
    \E randomLane \in IF draws THEN Lanes ELSE {"center"},
       mateRoll \in IF draws THEN BOOLEAN ELSE {FALSE} :
      /\ script.frames = 0
      /\ clock.gameTime < timeLimit
      /\ twin.clock.gameTime < timeLimit
      /\ inputBudget >= cost
      /\ inputBudget' = inputBudget - cost
      /\ Handled(frame(World, MAX_DELTA_TIME, randomLane, mateRoll), "frame",
                 MAX_DELTA_TIME)
      /\ twin' = commit(twin, frame(twin, twinDelta, randomLane, mateRoll)).world
      /\ UNCHANGED <<script, timeLimit>>

\* one key press, heard by both runs
PairKey ==
  \E key \in Keys :
    /\ script.frames = 0
    /\ inputBudget > 0
    /\ inputBudget' = inputBudget - 1
    /\ Handled(handleKeyPress(World, key), "key", key)
    /\ twin' = commit(twin, handleKeyPress(twin, key)).world
    /\ UNCHANGED <<script, timeLimit>>

NextPair == WarmUpFrame \/ WarmUpJump \/ PairFrame \/ PairKey

SpecPair == InitPair /\ [][NextPair]_vars

-----------------------------------------------------------------------------
(* Properties of the clock *)

IsUpdate(call) == call.op = "updateTime"

Positive(history) == \E i \in 1..Len(history) : history[i] > 0

C2_FreezeIsolation ==
  [][ (IsUpdate(lastCall') /\ lastCall'.arg > EXTREME_DELTA_THRESHOLD /\ ~clock.isPaused) =>
        /\ result' = [processedDelta |-> 0, shouldSkipPhysics |-> TRUE,
                      isRecoveringFromFreeze |-> TRUE]
        /\ clock'.gameTime = clock.gameTime
        /\ clock'.smoothedDelta = clock.smoothedDelta
        /\ clock'.deltaHistory = clock.deltaHistory ]_vars

\* a 5 s frame has been answered after normal frames filled part of the history
C2_Witness ==
  /\ lastCall = [op |-> "updateTime", arg |-> 5 * TicksPerSecond]
  /\ ~clock.isPaused
  /\ result.shouldSkipPhysics /\ result.isRecoveringFromFreeze
  /\ Len(clock.deltaHistory) >= 2 /\ clock.gameTime > 0

\* C3: while paused every updateTime returns {0, skip, not recovering} and
\* changes no clock state, so gameTime stays at its value when the pause
\* began; the updateTime(1/60 s) that follows setPaused(false) adds the new
\* smoothedDelta (at most 0.05 s) to that value, however many paused calls
\* were made.
C3_PauseIdempotence ==
  /\ [](clock.isPaused => clock.gameTime = clock.pauseStartTime)
  /\ [][ /\ ( (IsUpdate(lastCall') /\ clock.isPaused) =>
                 ( /\ result' = [processedDelta |-> 0, shouldSkipPhysics |-> TRUE,
                                 isRecoveringFromFreeze |-> FALSE]
                   /\ clock' = clock ) )
          /\ ( ( /\ lastCall = [op |-> "setPaused", arg |-> 0]
                 /\ lastCall' = [op |-> "updateTime", arg |-> TicksPerSecond \div 60] ) =>
                 ( /\ clock'.gameTime = clock.gameTime + clock'.smoothedDelta
                   /\ clock'.smoothedDelta <= MAX_DELTA_TIME
                   /\ result'.processedDelta = clock'.smoothedDelta
                   /\ (pausedCalls > 0 =>
                         clock'.gameTime = clock.pauseStartTime + clock'.smoothedDelta) ) ) ]_vars

\* the first frame after a pause during which updateTime was called at least
\* MaxPausedCalls times: gameTime is one smoothedDelta past the pause's start
C3_Witness ==
  /\ lastCall = [op |-> "updateTime", arg |-> TicksPerSecond \div 60]
  /\ ~clock.isPaused
  /\ pausedCalls = MaxPausedCalls
  /\ clock.pauseStartTime > 0
  /\ clock.gameTime = clock.pauseStartTime + clock.smoothedDelta
  /\ ~result.shouldSkipPhysics

\* C4: after a non-paused updateTime(rawDelta): for 0.1 s < rawDelta <= 0.2 s
\* the delta appended to the history is 0.05 s, the frame is flagged as
\* recovering and is not skipped (0.2 s itself included); for rawDelta <= 0.1 s
\* it is not flagged as recovering.
C4_Classification ==
  (IsUpdate(lastCall) /\ ~clock.isPaused) =>
    /\ ( (lastCall.arg > 360 /\ lastCall.arg <= 720) =>
          ( /\ clock.deltaHistory # <<>>
            /\ clock.deltaHistory[Len(clock.deltaHistory)] = 180
            /\ result.isRecoveringFromFreeze
            /\ ~result.shouldSkipPhysics ) )
    /\ ( lastCall.arg <= 360 => ~result.isRecoveringFromFreeze )

\* a frame of exactly 0.2 s has been processed as a recovering frame
C4_Witness ==
  /\ lastCall = [op |-> "updateTime", arg |-> 720]
  /\ ~clock.isPaused
  /\ result.isRecoveringFromFreeze /\ ~result.shouldSkipPhysics
  /\ result.processedDelta > 0

-----------------------------------------------------------------------------
(* Properties of the timed behaviours *)

\* what a frame did, read off the world before it and the world after it
Processed(before, after) ==
  ~before.scene.isGameOver /\ ~before.scene.isPaused /\ ~after.result.shouldSkipPhysics

SpawnedObstacle(before, after) ==
  after.player.obstacleIdCounter # before.player.obstacleIdCounter

SpawnedWallImage(before, after) ==
  after.player.wallImageIdCounter # before.player.wallImageIdCounter

CompletedJump(before, after) ==
  before.player.isJumping /\ ~after.player.isJumping

ExpiredInvulnerability(before, after) ==
  before.player.isInvulnerable /\ ~after.player.isInvulnerable

\* a frame fires each timer exactly when it is due by the game time the
\* frame's updateTime gave
TimersByGameTime(before, after) ==
  LET processed == Processed(before, after)
      now       == after.clock.gameTime
      pl        == before.player
      regranted == /\ after.player.isInvulnerable
                   /\ after.player.invulnerabilityEndTime = now + invulnerabilityDuration
  IN  /\ SpawnedObstacle(before, after)
           <=> (processed /\ now - pl.lastObstacleSpawn >= spawnInterval)
      /\ SpawnedWallImage(before, after)
           <=> (processed /\ now - pl.lastWallImageSpawn >= wallImageInterval)
      /\ CompletedJump(before, after)
           <=> (processed /\ pl.isJumping /\ now - pl.jumpStartTime >= jumpDuration)
      /\ ExpiredInvulnerability(before, after)
           => (processed /\ now >= pl.invulnerabilityEndTime)
      /\ (processed /\ pl.isInvulnerable /\ now >= pl.invulnerabilityEndTime)
           => (ExpiredInvulnerability(before, after) \/ regranted)

\* the two runs stand at the same game time before the step and after it
SameGameTime ==
  clock.gameTime = twin.clock.gameTime /\ clock'.gameTime = twin'.clock.gameTime

\* the two runs hold the same invulnerability before the step
SameInvulnerability ==
  /\ player.isInvulnerable = twin.player.isInvulnerable
  /\ player.invulnerabilityEndTime = twin.player.invulnerabilityEndTime

\* the two runs spawn and complete jumps in the same frames
SameSpawnsAndJumps ==
  /\ SpawnedObstacle(World, World') <=> SpawnedObstacle(twin, twin')
  /\ SpawnedWallImage(World, World') <=> SpawnedWallImage(twin, twin')
  /\ CompletedJump(World, World') <=> CompletedJump(twin, twin')

SameExpiry ==
  ExpiredInvulnerability(World, World') <=> ExpiredInvulnerability(twin, twin')

\* C5 as stated: two runs whose frames yield the same game times spawn,
\* complete jumps and lose invulnerability in the same frames, whatever their
\* raw deltas.
C5_AsStated ==
  [][ (event'.kind = "frame" /\ SameGameTime)
        => (SameSpawnsAndJumps /\ SameExpiry) ]_vars

\* C5: every timed behaviour is decided by game time alone. In each run a
\* frame spawns an obstacle or a wall image, completes a jump or ends an
\* invulnerability exactly when the game time it reached makes that due; so
\* two runs at the same game times spawn and complete jumps in the same
\* frames, and lose invulnerability in the same frames when they held the
\* same invulnerability.
C5_OneTimeBase ==
  [][ event'.kind = "frame"
        => ( /\ TimersByGameTime(World, World')
             /\ TimersByGameTime(twin, twin')
             /\ SameGameTime
                  => ( /\ SameSpawnsAndJumps
                       /\ SameInvulnerability => SameExpiry ) ) ]_vars

\* after the quiet start a frame that was on time in one run and late in the
\* other has spawned an obstacle in both
C5_Witness ==
  /\ script.pair /\ script.frames = 0
  /\ event.kind = "frame"
  /\ ~result.isRecoveringFromFreeze /\ twin.result.isRecoveringFromFreeze
  /\ clock.gameTime = twin.clock.gameTime
  /\ player.lastObstacleSpawn = clock.gameTime
  /\ twin.player.lastObstacleSpawn = clock.gameTime
  /\ clock.gameTime > PairFrames * MAX_DELTA_TIME

-----------------------------------------------------------------------------
(* Properties of the collisions *)

\* the box the frame handed to checkCollisions meets an obstacle of the
\* render the frame closed over
HitsObstacle ==
  \E i \in 1..Len(player.obstacles) :
    intersectsObstacle(player'.meshX, player.currentY, player'.positionZ,
                       player.obstacles[i])

\* the same box meets a mate of that render
HitsMate ==
  \E i \in 1..Len(player.mates) :
    intersectsMate(player'.meshX, player.currentY, player'.positionZ,
                   player.mates[i])

\* The case of C6 never arises: no frame hands checkCollisions a box that
\* meets a mate box and an obstacle box at once. A mate box spans heights
\* 2.75 to 3.25 and an obstacle box -1 to 1, and the player box is 0.8 high.
BoxesNeverBothMet == [][ ~(HitsMate /\ HitsObstacle) ]_vars

\* a frame has just collected a mate
MateCollected ==
  /\ event.kind = "frame"
  /\ player.isInvulnerable
  /\ player.invulnerabilityEndTime = clock.gameTime + invulnerabilityDuration

\* C7: game over is signalled only by a frame that was processed (not paused,
\* not skipped, not recovering from a freeze) in which the player box meets
\* an obstacle box and no mate box while the player is not invulnerable; so
\* an invulnerable player's overlap with an obstacle never ends the run.
C7_GameOverOnlyOnHit ==
  [][ (~scene.isGameOver /\ scene'.isGameOver)
        => ( /\ event'.kind = "frame"
             /\ ~scene.isPaused
             /\ ~result'.shouldSkipPhysics
             /\ ~result'.isRecoveringFromFreeze
             /\ ~player.isInvulnerable
             /\ HitsObstacle
             /\ ~HitsMate ) ]_vars

\* a frame has just ended the run
C7_Witness ==
  /\ scene.isGameOver
  /\ event.kind = "frame"
  /\ ~result.shouldSkipPhysics /\ ~result.isRecoveringFromFreeze
  /\ ~player.isInvulnerable

\* an invulnerable player stands inside an obstacle and the run goes on
C7_InvulnerableOverlap ==
  /\ ~scene.isGameOver
  /\ event.kind = "frame"
  /\ ~result.shouldSkipPhysics /\ ~result.isRecoveringFromFreeze
  /\ player.isInvulnerable
  /\ \E i \in 1..Len(player.obstacles) :
       intersectsObstacle(player.meshX, player.currentY, player.positionZ,
                          player.obstacles[i])

-----------------------------------------------------------------------------
(* Properties of the input aggregator *)

\* C8: a set keyboard-active flag is cleared one second after the last key
\* press and never stays set for good. Only the timeout callback clears the
\* flag, so the claim needs the timeout to be pending whenever the flag is set.
C8_FlagClears == player.keyboardActive => player.keyboardTimeout

\* C9: while the keyboard-active flag is set no gesture effect sets the lane
\* or starts a jump, and a hand detection leaves currentLane, targetX,
\* isJumping and jumpStartTime as they were.
C9_KeyboardPriority ==
  [][ (player.keyboardActive /\ player'.keyboardActive)
        => ( /\ ~event'.gestureLane
             /\ ~event'.gestureJump
             /\ (event'.kind = "hand" =>
                   /\ player'.currentLane = player.currentLane
                   /\ player'.targetX = player.targetX
                   /\ player'.isJumping = player.isJumping
                   /\ player'.jumpStartTime = player.jumpStartTime) ) ]_vars

\* a hand detection has brought a lane other than the player's and a closed
\* fist while the flag was set, and the player is where the keyboard left it
C9_Witness ==
  /\ event.kind = "hand"
  /\ player.keyboardActive
  /\ hand.lane \notin {"none", player.currentLane}
  /\ hand.jump
  /\ ~player.isJumping

\* C10: the gesture jump effect starts a jump only in the step in which the
\* fist goes from open to closed.
C10_RisingEdgeOnly ==
  [][ event'.gestureJump => (~hand.jump /\ hand'.jump) ]_vars


-----------------------------------------------------------------------------
(* Properties of the lanes *)

\* the lanes as positions from left to right
laneIndex(lane) == CASE lane = "left" -> 0 [] lane = "center" -> 1 [] lane = "right" -> 2

\* C11: a press of ArrowLeft or ArrowRight leaves currentLane where it was or
\* moves it to an adjacent lane, never from left to right or from right to
\* left, and targetX follows it.
C11_OneLanePerKey ==
  [][ (event'.kind = "key" /\ event'.arg \in {"ArrowLeft", "ArrowRight"})
        => ( /\ laneIndex(player'.currentLane) - laneIndex(player.currentLane)
                  \in {-1, 0, 1}
             /\ player'.targetX = laneX(player'.currentLane) ) ]_vars

\* a second arrow press has just been taken in an outer lane
C11_Witness ==
  /\ event.kind = "key"
  /\ event.arg \in {"ArrowLeft", "ArrowRight"}
  /\ inputBudget = MaxInputs - 2
  /\ player.currentLane # "center"
  /\ ~scene.isPaused


-----------------------------------------------------------------------------
(* Properties of the timed-event helpers *)

\* the event's game time read from its start
Elapsed == clock.gameTime - event.startTime

\* game time has grown from 0 by count steps of 0.3 s
StridesFromZero(count) ==
  /\ event.from = 0
  /\ event.count = count
  /\ clock.gameTime = count * 6 * MAX_DELTA_TIME

\* C12: hasTimeElapsed(lastTime, interval) is true exactly when
\* gameTime - lastTime >= interval; with interval 1 s and lastTime 0, on game
\* time growing by 0.3 s a step, it is false after 1, 2 and 3 steps and true
\* after the 4th.
C12_ElapsedExactly ==
  event.kind = "timer" =>
    /\ event.hasElapsed <=> (Elapsed >= event.length)
    /\ (event.startTime = 0 /\ event.length = TicksPerSecond) =>
         /\ \A count \in 1..3 : StridesFromZero(count) => ~event.hasElapsed
         /\ StridesFromZero(4) => event.hasElapsed

\* the 4th step of 0.3 s with interval 1 s and lastTime 0
C12_Witness ==
  /\ event.kind = "timer"
  /\ event.startTime = 0
  /\ event.length = TicksPerSecond
  /\ StridesFromZero(4)
  /\ event.hasElapsed

\* an interval that ends exactly now, counted from a later lastTime
C12_AtTheEnd ==
  /\ event.kind = "timer"
  /\ event.startTime > 0
  /\ Elapsed = event.length
  /\ event.hasElapsed

\* C13: for a duration D > 0 and a start T, getEventProgress(T, D) is
\* clamp((gameTime - T) / D, 0, 1), here in whole thousandths rounded down:
\* 0 at gameTime <= T, 1 at gameTime = T + D and from there on (so at T + 2D),
\* and isEventComplete(T, D) is true exactly when the progress is at least 1.
C13_ProgressClamped ==
  event.kind = "timer" =>
    /\ event.progress \in 0..ProgressScale
    /\ (Elapsed <= 0) => event.progress = 0
    /\ (Elapsed >= event.length) => event.progress = ProgressScale
    /\ (Elapsed > 0 /\ Elapsed < event.length) =>
         /\ event.progress * event.length <= Elapsed * ProgressScale
         /\ Elapsed * ProgressScale < (event.progress + 1) * event.length
    /\ event.complete <=> (event.progress >= ProgressScale)

\* the helpers read at T + 2D, after reads before T
C13_Witness ==
  /\ event.kind = "timer"
  /\ event.from < event.startTime
  /\ Elapsed = 2 * event.length
  /\ event.progress = ProgressScale
  /\ event.complete


-----------------------------------------------------------------------------
(* Properties of the smoothed delta *)

C26_SmoothedStep ==
  [][ (IsUpdate(lastCall') /\ ~clock.isPaused
         /\ lastCall'.arg <= EXTREME_DELTA_THRESHOLD) =>
      LET before == clock.deltaHistory
          after  == clock'.deltaHistory
          newest == IF lastCall'.arg <= MAX_DELTA_TIME THEN lastCall'.arg
                    ELSE MAX_DELTA_TIME
      IN  /\ Len(after) = (IF Len(before) < SMOOTHING_SAMPLES THEN Len(before) + 1
                           ELSE SMOOTHING_SAMPLES)
          /\ after[Len(after)] = newest
          /\ \A i \in 1..(Len(after) - 1) :
               after[i] = before[i + Len(before) + 1 - Len(after)]
          /\ clock'.smoothedDelta * Len(after) = SumSeq(after)
          /\ clock'.gameTime = clock.gameTime + clock'.smoothedDelta
          /\ result'.processedDelta = clock'.smoothedDelta
          /\ ~result'.shouldSkipPhysics ]_vars

\* a delta over the cap has just been entered, capped, as the newest of five
\* unequal entries, and their mean, below the cap, was returned
C26_Witness ==
  /\ IsUpdate(lastCall) /\ ~clock.isPaused
  /\ lastCall.arg > MAX_DELTA_TIME /\ lastCall.arg <= EXTREME_DELTA_THRESHOLD
  /\ Len(clock.deltaHistory) = SMOOTHING_SAMPLES
  /\ clock.deltaHistory[SMOOTHING_SAMPLES] = MAX_DELTA_TIME
  /\ clock.deltaHistory[1] # clock.deltaHistory[2]
  /\ pausedCalls = 0
  /\ result.processedDelta = clock.smoothedDelta
  /\ clock.smoothedDelta < MAX_DELTA_TIME


-----------------------------------------------------------------------------
(* Properties of the frame rate *)

C27_StillFilling ==
  /\ event.kind = "steady"
  /\ event.before = ReferenceDelta
  /\ event.rawDelta = MAX_DELTA_TIME
  /\ event.frames = 1
  /\ result.processedDelta < MAX_DELTA_TIME

\* C15: at a steady 30 FPS (every rawDelta 1/30 s) gameTime has advanced half
\* as far as at 60 FPS over the same real time, so that everything timed by
\* gameTime runs at half speed in real time.
C15_HalfSpeedAt30 ==
  (event.kind = "rate" /\ event.rawDelta = 2 * ReferenceDelta) =>
    2 * clock.gameTime = twin.clock.gameTime

\* at 30 FPS gameTime keeps up with the clock at 60 FPS
C15_FullSpeedAt30 ==
  /\ event.kind = "rate" /\ event.rawDelta = 2 * ReferenceDelta
  /\ event.realTime = TicksPerSecond
  /\ clock.gameTime = TicksPerSecond
  /\ twin.clock.gameTime = TicksPerSecond

\* gameTime runs at half the speed of the clock at 60 FPS only at 10 FPS
C15_HalfSpeedAt10 ==
  /\ event.kind = "rate" /\ event.rawDelta = 6 * ReferenceDelta
  /\ event.realTime = TicksPerSecond
  /\ 2 * clock.gameTime = twin.clock.gameTime


-----------------------------------------------------------------------------
(* Properties of the invulnerability *)

\* the step is a frame that ran its collision check
CheckedFrame ==
  /\ event'.kind = "frame"
  /\ ~scene.isGameOver /\ ~scene.isPaused
  /\ ~result'.shouldSkipPhysics /\ ~result'.isRecoveringFromFreeze

\* the step is a frame that ran its physics
ProcessedFrame ==
  /\ event'.kind = "frame"
  /\ ~scene.isGameOver /\ ~scene.isPaused
  /\ ~result'.shouldSkipPhysics

\* C16: isInvulnerable and invulnerabilityEndTime change together: a frame
\* that collects a mate sets the flag and the end time gameTime + 5 s,
\* whatever was left of an earlier invulnerability; otherwise a frame on which
\* the end time has come clears the flag and the end time; no other step
\* changes either.
C16_SetAndClearedTogether ==
  [][ LET collects == CheckedFrame /\ HitsMate
          expires  == /\ ProcessedFrame
                      /\ player.isInvulnerable
                      /\ clock'.gameTime >= player.invulnerabilityEndTime
      IN  /\ player'.isInvulnerable <=> (player'.invulnerabilityEndTime > 0)
          /\ collects =>
               /\ player'.isInvulnerable
               /\ player'.invulnerabilityEndTime
                    = clock'.gameTime + invulnerabilityDuration
          /\ (~collects /\ expires) =>
               /\ ~player'.isInvulnerable
               /\ player'.invulnerabilityEndTime = 0
          /\ (~collects /\ ~expires) =>
               /\ player'.isInvulnerable = player.isInvulnerable
               /\ player'.invulnerabilityEndTime = player.invulnerabilityEndTime
    ]_vars

\* a second mate has just been collected while the first one's
\* invulnerability was running
C16_Witness ==
  /\ MateCollected
  /\ script.frames = 0
  /\ player.mateIdCounter - Len(player.mates) = 2


\* the invulnerability of the first mate has just run out
C16_Expired ==
  /\ event.kind = "frame"
  /\ script.frames = 0 /\ script.mate /\ script.lane = "center"
  /\ ~scene.isGameOver
  /\ ~player.isInvulnerable /\ player.invulnerabilityEndTime = 0
  /\ player.positionZ > spawnDistance + 4 * cleanupDistance


-----------------------------------------------------------------------------
(* Properties of the jump state *)

-----------------------------------------------------------------------------
(* Properties of the frames that are not fully processed *)

\* the step is a frame of a running game that called updateTime
TimedFrame ==
  /\ event'.kind = "frame"
  /\ ~scene.isGameOver /\ ~scene.isPaused

\* C18: a frame whose updateTime asks to skip physics (an extreme frame, raw
\* delta above 0.2 s) leaves the whole player state as it was: positionZ, the
\* visual x and y, lane, jump and invulnerability state, the last-spawn
\* times and every collection; game time and game over do not change either.
C18_SkippedFrameIsInert ==
  [][ (TimedFrame /\ event'.arg > EXTREME_DELTA_THRESHOLD) =>
        /\ result'.shouldSkipPhysics
        /\ player' = player
        /\ scene' = scene
        /\ clock'.gameTime = clock.gameTime ]_vars

\* an extreme frame has been skipped with obstacles on the track and an
\* invulnerability running
C18_Witness ==
  /\ event.kind = "frame" /\ event.arg > EXTREME_DELTA_THRESHOLD
  /\ ~scene.isGameOver /\ ~scene.isPaused
  /\ result.shouldSkipPhysics
  /\ script.frames = 0
  /\ Len(player.obstacles) > 0
  /\ player.isInvulnerable


\* every element of list that cleanup keeps at newZ is in kept
KeptIn(list, kept, newZ) ==
  \A i \in 1..Len(list) :
    list[i].z > newZ - cleanupDistance
      => \E j \in 1..Len(kept) : kept[j] = list[i]

\* C19: a freeze-recovery frame (raw delta above 0.1 s and at most 0.2 s) is
\* processed: the player moves on, a due obstacle is spawned and what lies
\* more than 20 behind is evicted; but no collision is evaluated: no mate is
\* consumed, no invulnerability is granted and game over is not signalled.
C19_RecoveryFrameNoCollision ==
  [][ ( /\ TimedFrame
        /\ event'.arg > 2 * MAX_DELTA_TIME
        /\ event'.arg <= EXTREME_DELTA_THRESHOLD ) =>
        /\ result'.isRecoveringFromFreeze /\ ~result'.shouldSkipPhysics
        /\ player'.positionZ
             = player.positionZ + movementSpeed(result'.processedDelta)
        /\ (player'.obstacleIdCounter # player.obstacleIdCounter)
             <=> (clock'.gameTime - player.lastObstacleSpawn >= spawnInterval)
        /\ \A i \in 1..Len(player'.obstacles) :
             player'.obstacles[i].z > player'.positionZ - cleanupDistance
        /\ KeptIn(player.mates, player'.mates, player'.positionZ)
        /\ player'.isInvulnerable => player.isInvulnerable
        /\ player'.invulnerabilityEndTime \in {player.invulnerabilityEndTime, 0}
        /\ ~scene'.isGameOver ]_vars

\* a freeze-recovery frame has moved a vulnerable player on the ground into
\* an obstacle and the run goes on
C19_Witness ==
  /\ event.kind = "frame"
  /\ event.arg > 2 * MAX_DELTA_TIME /\ event.arg <= EXTREME_DELTA_THRESHOLD
  /\ result.isRecoveringFromFreeze
  /\ script.frames = 0
  /\ ~scene.isGameOver /\ ~scene.isPaused
  /\ ~player.isInvulnerable /\ ~player.isJumping /\ player.currentY = 0
  /\ \E i \in 1..Len(player.obstacles) :
       intersectsObstacle(player.meshX, player.currentY, player.positionZ,
                          player.obstacles[i])

\* a freeze-recovery frame has moved a jumping player into a mate, which is
\* still there
C19_MateLeft ==
  /\ event.kind = "frame"
  /\ event.arg > 2 * MAX_DELTA_TIME /\ event.arg <= EXTREME_DELTA_THRESHOLD
  /\ result.isRecoveringFromFreeze
  /\ script.frames = 0
  /\ ~scene.isGameOver /\ ~scene.isPaused
  /\ \E i \in 1..Len(player.mates) :
       intersectsMate(player.meshX, player.currentY, player.positionZ,
                      player.mates[i])


-----------------------------------------------------------------------------
(* Properties of the end of a run *)

\* what the keyboard timeout alone may write
KeyboardFlags(pl) == <<pl.keyboardActive, pl.keyboardTimeout>>

\* the player state but for the keyboard flags
Played(pl) == [pl EXCEPT !.keyboardActive = FALSE, !.keyboardTimeout = FALSE]

\* C20: once game over is set, and until a restart, no frame, key press or
\* hand detection changes positionZ, gameTime, the collections, the lane or
\* the jump state (nor any other part of the player state but the keyboard
\* flags); game over stays set and Escape does not pause.
C20_NothingAfterGameOver ==
  [][ (scene.isGameOver /\ event'.kind # "restart") =>
        /\ Played(player') = Played(player)
        /\ clock'.gameTime = clock.gameTime
        /\ scene' = scene
        /\ event'.kind \in {"key", "hand", "frame"}
             => KeyboardFlags(player') = KeyboardFlags(player)
        /\ ~event'.gestureLane /\ ~event'.gestureJump ]_vars

\* after game over a hand has been detected in another lane, closed, and the
\* player has neither changed lane nor jumped
C20_Witness ==
  /\ scene.isGameOver
  /\ event.kind = "hand"
  /\ hand.lane \notin {"none", player.currentLane}
  /\ hand.jump /\ ~player.isJumping
  /\ ~player.keyboardActive

\* after game over an arrow key has been pressed
C20_KeyAfterGameOver ==
  /\ scene.isGameOver
  /\ event.kind = "key" /\ event.arg \in {"ArrowLeft", "ArrowUp", "Escape"}
  /\ inputBudget = 0


-----------------------------------------------------------------------------
(* Properties of the restart *)

-----------------------------------------------------------------------------
(* Properties of the entity collections *)

IdsOf(list) == {list[i].id : i \in 1..Len(list)}

\* the ids of list are distinct and all below the counter
IdsIssued(list, counter) ==
  /\ Cardinality(IdsOf(list)) = Len(list)
  /\ \A id \in IdsOf(list) : id >= 0 /\ id < counter

\* the ids that are new in after are the values the counter passed through
IdsTaken(before, counterBefore, after, counterAfter) ==
  /\ counterAfter >= counterBefore
  /\ IdsOf(after) \ IdsOf(before) = counterBefore..(counterAfter - 1)

\* C22: within obstacles, mates, terrain segments, tunnel lights and wall
\* images the ids are distinct; each collection's counter only grows during
\* a session, and the ids that enter a collection in a step are exactly the
\* values its counter passed through, so ids are assigned in increasing
\* order and none is issued twice, the initial segments' and lights' ids
\* (0 to 7) included.
C22_IdsUniqueAndIncreasing ==
  /\ [](/\ IdsIssued(player.obstacles, player.obstacleIdCounter)
        /\ IdsIssued(player.mates, player.mateIdCounter)
        /\ IdsIssued(player.wallImages, player.wallImageIdCounter)
        /\ IdsIssued(player.terrainSegments, player.terrainIdCounter)
        /\ IdsIssued(player.tunnelLights, player.lightIdCounter))
  /\ [][ event'.kind # "restart" =>
           /\ IdsTaken(player.obstacles, player.obstacleIdCounter,
                       player'.obstacles, player'.obstacleIdCounter)
           /\ IdsTaken(player.mates, player.mateIdCounter,
                       player'.mates, player'.mateIdCounter)
           /\ IdsTaken(player.wallImages, player.wallImageIdCounter,
                       player'.wallImages, player'.wallImageIdCounter)
           /\ IdsTaken(player.terrainSegments, player.terrainIdCounter,
                       player'.terrainSegments, player'.terrainIdCounter)
           /\ IdsTaken(player.tunnelLights, player.lightIdCounter,
                       player'.tunnelLights, player'.lightIdCounter) ]_vars

\* every collection has taken in new entities and obstacles, terrain segments
\* and lights have been evicted
C22_Witness ==
  /\ event.kind = "frame"
  /\ script.frames = 0
  /\ Len(player.obstacles) > 1 /\ Len(player.obstacles) < player.obstacleIdCounter
  /\ Len(player.mates) > 1
  /\ Len(player.wallImages) > 0 /\ player.wallImageIdCounter > 1
  /\ player.terrainIdCounter > Len(player.terrainSegments)
  /\ 0 \notin IdsOf(player.terrainSegments)
  /\ player.lightIdCounter > segmentsAhead + segmentsBehind + 1
  /\ 0 \notin IdsOf(player.tunnelLights)


\* the entities of after whose id is not in before
NewIn(before, after) ==
  {after[i] : i \in {j \in 1..Len(after) : after[j].id \notin IdsOf(before)}}

\* C23: a mate enters the collection only in a frame in which an obstacle
\* enters too, and it has that obstacle's lane, x and z.
C23_MateOnlyWithObstacle ==
  [][ event'.kind # "restart" =>
        \A m \in NewIn(player.mates, player'.mates) :
          /\ event'.kind = "frame"
          /\ \E o \in NewIn(player.obstacles, player'.obstacles) :
               o.lane = m.lane /\ o.x = m.x /\ o.z = m.z ]_vars

\* a frame of the followed run has just spawned an obstacle outside the
\* center lane with a mate
C23_Witness ==
  /\ event.kind = "frame"
  /\ script.frames = 0
  /\ player.lastObstacleSpawn = clock.gameTime
  /\ Len(player.mates) > 0
  /\ LET m == player.mates[Len(player.mates)]
         o == player.obstacles[Len(player.obstacles)]
     IN  /\ m.z = player.positionZ + spawnDistance
         /\ m.lane # "center"
         /\ m.lane = o.lane /\ m.x = o.x /\ m.z = o.z


-----------------------------------------------------------------------------
(* Properties of the spawning and the cleanup *)

\* C28: a frame spawns an obstacle exactly when it is processed and the
\* game time it reached is at least spawnInterval past lastObstacleSpawn;
\* the frame then spawns one obstacle only, at the new positionZ plus
\* spawnDistance, and sets lastObstacleSpawn to that game time, so that
\* lastObstacleSpawn moves on by spawnInterval or more; no other step but a
\* restart adds an obstacle or changes lastObstacleSpawn.
C28_SpawnWhenDue ==
  [][ event'.kind # "restart" =>
      LET spawned == NewIn(player.obstacles, player'.obstacles)
          due     == /\ ProcessedFrame
                     /\ clock'.gameTime - player.lastObstacleSpawn >= spawnInterval
      IN  /\ (spawned # {}) <=> due
          /\ Cardinality(spawned) <= 1
          /\ player'.obstacleIdCounter
               = player.obstacleIdCounter + Cardinality(spawned)
          /\ \A o \in spawned : o.z = player'.positionZ + spawnDistance
          /\ due => /\ player'.lastObstacleSpawn = clock'.gameTime
                    /\ player'.lastObstacleSpawn
                         >= player.lastObstacleSpawn + spawnInterval
          /\ ~due => player'.lastObstacleSpawn = player.lastObstacleSpawn ]_vars

\* a frame of the followed run has just spawned an obstacle that is not the
\* first, spawnInterval or more after the one before
C28_Witness ==
  /\ event.kind = "frame"
  /\ script.frames = 0
  /\ player.obstacleIdCounter > 1
  /\ player.lastObstacleSpawn = clock.gameTime
  /\ player.lastObstacleSpawn >= 2 * spawnInterval
  /\ Len(player.obstacles) > 0
  /\ player.obstacles[Len(player.obstacles)].z = player.positionZ + spawnDistance

\* the elements of a list
ElementsOf(list) == {list[i] : i \in 1..Len(list)}

\* every entity of list lies less than cleanupDistance behind playerZ
NotFarBehind(list, playerZ) ==
  \A e \in ElementsOf(list) : e.z > playerZ - cleanupDistance

\* the entities of after that were in before are unchanged, and those of
\* before that are gone from after lay cleanupDistance or more behind the
\* player after a frame that ran its physics
OnlyEvicted(before, after) ==
  /\ \A e \in ElementsOf(after) :
       e.id \in IdsOf(before) => e \in ElementsOf(before)
  /\ \A e \in ElementsOf(before) :
       e \notin ElementsOf(after)
         => /\ ProcessedFrame
            /\ e.z <= player'.positionZ - cleanupDistance

\* the same for the mates, which also leave when a checked frame's player
\* box meets them
OnlyEvictedOrCollected(before, after) ==
  /\ \A e \in ElementsOf(after) :
       e.id \in IdsOf(before) => e \in ElementsOf(before)
  /\ \A e \in ElementsOf(before) :
       e \notin ElementsOf(after)
         => /\ ProcessedFrame
            /\ \/ e.z <= player'.positionZ - cleanupDistance
               \/ /\ CheckedFrame
                  /\ intersectsMate(player'.meshX, player.currentY,
                                    player'.positionZ, e)

\* C29: after a frame that ran its physics every obstacle, mate and wall
\* image left in its collection has z > positionZ - 20; in the steps of a
\* session an entity leaves its collection only in such a frame, being 20 or
\* more behind the player (or, a mate, being met by the player's box), and
\* the entities that stay keep their id, lane, x and z.
C29_EvictedBehindOnly ==
  [][ event'.kind # "restart" =>
      /\ ProcessedFrame =>
           /\ NotFarBehind(player'.obstacles, player'.positionZ)
           /\ NotFarBehind(player'.mates, player'.positionZ)
           /\ NotFarBehind(player'.wallImages, player'.positionZ)
      /\ OnlyEvicted(player.obstacles, player'.obstacles)
      /\ OnlyEvicted(player.wallImages, player'.wallImages)
      /\ OnlyEvictedOrCollected(player.mates, player'.mates) ]_vars

\* a frame of a running game has just evicted the first obstacle and kept a
\* later one, after a mate was collected
C29_Witness ==
  /\ event.kind = "frame"
  /\ ~scene.isGameOver
  /\ Len(player.obstacles) > 0
  /\ player.obstacles[1].id = 1
  /\ player.isInvulnerable
  /\ player.positionZ - cleanupDistance >= spawnDistance

\* the multiples of segmentSize from minZ to maxZ
SlotsWithin(minZ, maxZ) ==
  {k * segmentSize : k \in {j \in ((minZ \div segmentSize) - 1)..((maxZ \div segmentSize) + 1) :
                              minZ <= j * segmentSize /\ j * segmentSize <= maxZ}}

\* every slot of the window around playerZ holds exactly one of the segments
WindowCovered(segments, playerZ) ==
  \A slot \in SlotsWithin(playerZ - segmentsBehind * segmentSize,
                          playerZ + segmentsAhead * segmentSize) :
    Cardinality({i \in 1..Len(segments) : segments[i].z = slot}) = 1

\* no segment lies more than margin behind the rear edge of the window
RetainedWithin(segments, playerZ, margin) ==
  \A i \in 1..Len(segments) :
    segments[i].z >= playerZ - segmentsBehind * segmentSize - margin

\* C30: after a frame has recycled the terrain at the new positionZ, every
\* multiple of segmentSize from positionZ - segmentsBehind * segmentSize to
\* positionZ + segmentsAhead * segmentSize holds exactly one terrain segment,
\* and no segment retained lies more than one segment length behind the rear
\* edge of that window.
C30_AsStated ==
  [][ ProcessedFrame =>
        /\ WindowCovered(player'.terrainSegments, player'.positionZ)
        /\ RetainedWithin(player'.terrainSegments, player'.positionZ,
                          segmentSize) ]_vars

\* C30 amended: the window is covered as stated, and no segment retained lies
\* more than two segment lengths behind the rear edge of the window.
C30_CoveredWithinTwoBehind ==
  [][ ProcessedFrame =>
        /\ WindowCovered(player'.terrainSegments, player'.positionZ)
        /\ RetainedWithin(player'.terrainSegments, player'.positionZ,
                          2 * segmentSize) ]_vars

\* a frame of the followed run has recycled the terrain: initial segments
\* are gone, new ones have come, and the rearmost segment retained lies more
\* than one segment length behind the rear edge of the window
C30_Witness ==
  /\ event.kind = "frame"
  /\ script.frames = 0
  /\ ~scene.isGameOver
  /\ 0 \notin IdsOf(player.terrainSegments)
  /\ player.terrainIdCounter > segmentsAhead + segmentsBehind + 1
  /\ ~RetainedWithin(player.terrainSegments, player.positionZ, segmentSize)
  /\ WindowCovered(player.terrainSegments, player.positionZ)

-----------------------------------------------------------------------------
(* Properties of the gestures *)

\* C24: a hand detection that reports no hand (lane null) changes neither
\* currentLane nor targetX, whatever the lane of the player and whether or
\* not the keyboard is active.
C24_NoHandKeepsLane ==
  [][ (event'.kind = "hand" /\ event'.arg = "none") =>
        /\ player'.currentLane = player.currentLane
        /\ player'.targetX = player.targetX
        /\ ~event'.gestureLane ]_vars

\* the hand that had steered the player out of the center lane is gone: the
\* context holds no lane, gestures are enabled, and the player is where it was
C24_Witness ==
  /\ event.kind = "hand" /\ event.arg = "none"
  /\ hand.lane = "none" /\ hand.lastLaneRef = "none"
  /\ player.currentLane # "center"
  /\ gestureEnabled(World)


-----------------------------------------------------------------------------
(* Properties of the hand cameras *)

\* C25: for the same detector results HandCameraRefactored reports to
\* onHandDetected the lane and the isClosed that HandCameraImpl reports.
C25_SameReports ==
  event.kind = "detection" => event.refactored = event.original

\* a wrist just left of the first third, camera not mirrored: HandCameraImpl
\* reports the left lane, HandCameraRefactored no lane
C25_DeadZone ==
  /\ event.kind = "detection" /\ ~event.isMirrored
  /\ event.results.present /\ event.results.x = 90
  /\ event.original.lane = "left"
  /\ event.refactored.lane = "none"

\* the two cameras agree on isClosed whenever a full hand is detected
C25_SameClosure ==
  event.kind = "detection" => event.refactored.isClosed = event.original.isClosed


-----------------------------------------------------------------------------
(* Properties of the movement *)

\* C31: positionZ never decreases in a step of a session; a frame that runs
\* its physics adds exactly playerSpeed * processedDelta * 60 to it (to the
\* 1/100 of a unit that positions are counted in), with the processedDelta
\* that the frame's updateTime returned, and no other step changes it.
C31_ForwardByProcessedDelta ==
  [][ event'.kind # "restart" =>
      LET moved == 10 * TicksPerSecond * (player'.positionZ - player.positionZ)
          speed == playerSpeedTenths * result'.processedDelta * 60 * PosScale
      IN  /\ player'.positionZ >= player.positionZ
          /\ ProcessedFrame => moved <= speed /\ speed < moved + 10 * TicksPerSecond
          /\ ~ProcessedFrame => player'.positionZ = player.positionZ ]_vars

\* a frame of 1/60 s after one of 0.05 s has moved the player on by the
\* 1/30 s that updateTime returned for it
C31_Witness ==
  /\ event.kind = "frame" /\ event.arg = ReferenceDelta
  /\ ~scene.isGameOver /\ ~scene.isPaused
  /\ ~result.shouldSkipPhysics
  /\ result.processedDelta = 2 * ReferenceDelta
  /\ clock.gameTime = MAX_DELTA_TIME + result.processedDelta
  /\ 10 * TicksPerSecond * player.positionZ
       = playerSpeedTenths * clock.gameTime * 60 * PosScale


-----------------------------------------------------------------------------
(* Properties of a jump under way *)

\* C32: while isJumping holds, no key press, hand detection or keyboard
\* timeout restarts the jump or changes jumpStartTime, and no frame ends it
\* before the game time is jump.duration past jumpStartTime; the first frame
\* that runs its physics at such a game time ends it: currentY is 0 and
\* isJumping is cleared (a fist still closed, with the keyboard not active,
\* then starts the next jump at that game time). The height of a jump under
\* way stays from 0 to jump.height.
C32_JumpRunsItsDuration ==
  /\ [][ (player.isJumping /\ event'.kind # "restart") =>
         LET done == /\ ProcessedFrame
                     /\ clock'.gameTime - player.jumpStartTime >= jumpDuration
         IN  /\ ~done => /\ player'.isJumping
                         /\ player'.jumpStartTime = player.jumpStartTime
                         /\ ~event'.gestureJump
             /\ done => /\ player'.currentY = 0
                        /\ IF event'.gestureJump
                           THEN /\ player'.isJumping
                                /\ player'.jumpStartTime = clock'.gameTime
                           ELSE /\ ~player'.isJumping
                                /\ player'.jumpStartTime = player.jumpStartTime
       ]_vars
  /\ [](player.isJumping => player.currentY >= 0 /\ player.currentY <= jumpHeight)

\* a jump started by the key has ended on the frame that reached its
\* duration, a closed fist having been shown while it was under way
C32_Witness ==
  /\ event.kind = "frame"
  /\ script.frames = 0
  /\ ~player.isJumping /\ player.currentY = 0
  /\ player.jumpStartTime > 0
  /\ clock.gameTime - player.jumpStartTime = jumpDuration
  /\ hand.jump

\* a jump under way near its top, at the height of jump.height less 1/100
C32_NearTheTop ==
  /\ player.isJumping
  /\ player.currentY >= jumpHeight - 1

\* the frame that ended a jump has started the next, the fist being closed
C32_JumpAgainOnLanding ==
  /\ event.kind = "frame" /\ event.gestureJump
  /\ player.isJumping /\ player.currentY = 0
  /\ player.jumpStartTime = clock.gameTime
  /\ clock.gameTime >= jumpDuration


-----------------------------------------------------------------------------
(* Properties of the end of the invulnerability *)

\* C33: an invulnerable player that collects no mate in a step stops being
\* invulnerable in that step exactly when the step is a frame that runs its
\* physics at a game time of invulnerabilityEndTime or later, so in the first
\* such frame and in no earlier one; and when frames keep coming and no mate
\* is collected, an invulnerable player is vulnerable again later on.
C33_ExpiresOnTimeAndAtLast ==
  /\ [][ ( /\ player.isInvulnerable
           /\ event'.kind # "restart"
           /\ ~(CheckedFrame /\ HitsMate) ) =>
         ( ~player'.isInvulnerable
             <=> ( /\ ProcessedFrame
                   /\ clock'.gameTime >= player.invulnerabilityEndTime ) ) ]_vars
  /\ (FramesKeepComing => (player.isInvulnerable ~> ~player.isInvulnerable))

\* the invulnerability given by the first mate has run out on the frame that
\* reached its end time, 5 s after the mate was collected
C33_Witness ==
  /\ event.kind = "frame"
  /\ script.frames = 0 /\ script.mate /\ script.lane = "center"
  /\ ~player.isInvulnerable /\ player.invulnerabilityEndTime = 0
  /\ player.mateIdCounter > Len(player.mates)
  /\ clock.gameTime >= invulnerabilityDuration + spawnInterval


-----------------------------------------------------------------------------
(* Properties of the debouncing *)

\* C34: two successive changes of the lane that HandDetectionEngine reports
\* to onDetection are more than debounceMs apart, the changes to and from no
\* lane when the hand disappears and reappears included.
C34_ReportsDebounced ==
  event.kind = "engine" => (event.gap = 0 \/ event.gap > debounceMs)

\* the hand was in the left lane, was not found in the next pass and was
\* found again in the one after: the lane reported changed to none and back
\* to left within one frame interval
C34_FlickerOnLostHand ==
  /\ event.kind = "engine"
  /\ event.reported.lane = "left" /\ event.results.present
  /\ event.changedAt = event.now
  /\ event.gap = frameInterval

\* two successive changes of the engine's lastLane are more than debounceMs
\* apart
C34_LastLaneDebounced ==
  event.kind = "engine" => (event.lastLaneGap = 0 \/ event.lastLaneGap > debounceMs)


-----------------------------------------------------------------------------
(* Properties of the clock's buffers *)

\* C35: deltaHistory never holds more than 5 entries and each is from 0 to
\* MAX_DELTA_TIME (0.05 s); smoothedDelta and the processedDelta returned by
\* updateTime are at most MAX_DELTA_TIME; fpsHistory never holds more than 10
\* samples.
C35_BuffersBounded ==
  /\ Len(clock.deltaHistory) <= SMOOTHING_SAMPLES
  /\ \A i \in 1..Len(clock.deltaHistory) :
       clock.deltaHistory[i] >= 0 /\ clock.deltaHistory[i] <= MAX_DELTA_TIME
  /\ clock.smoothedDelta <= MAX_DELTA_TIME
  /\ result.processedDelta <= MAX_DELTA_TIME
  /\ event.kind = "diagnostics" => Len(event.diag.fpsHistory) <= fpsHistoryLimit

\* an eleventh FPS sample has been pushed onto a history of ten, and a delta
\* over the cap has been entered into a full deltaHistory
C35_Witness ==
  /\ event.kind = "diagnostics"
  /\ event.diag.pushes > fpsHistoryLimit
  /\ Len(event.diag.fpsHistory) = fpsHistoryLimit
  /\ IsUpdate(lastCall) /\ lastCall.arg > MAX_DELTA_TIME
  /\ ~result.shouldSkipPhysics
  /\ Len(clock.deltaHistory) = SMOOTHING_SAMPLES
  /\ result.processedDelta = MAX_DELTA_TIME


-----------------------------------------------------------------------------
(* Properties of the lane easing *)

\* C36: in every frame that runs its physics the easing factor 8 * safeDelta
\* is below 1: the frame's delta is at most 0.1 s when the frame is not a
\* freeze recovery and is cut to 1/30 s when it is; the mesh's x moves
\* towards targetX by no more than the distance left and never past it.
C36_EasingBelowOne ==
  [][ ProcessedFrame =>
      LET eased == safeDelta(event'.arg, result'.isRecoveringFromFreeze)
          left  == player.targetX - player.meshX
          still == player.targetX - player'.meshX
      IN  /\ ~result'.isRecoveringFromFreeze => event'.arg <= 2 * MAX_DELTA_TIME
          /\ result'.isRecoveringFromFreeze => eased <= recoveryDeltaCap
          /\ lerpRate * eased < TicksPerSecond
          /\ player'.targetX = player.targetX
          /\ left >= 0 => still >= 0 /\ still <= left
          /\ left <= 0 => still <= 0 /\ still >= left ]_vars

\* a frame of 0.1 s, no freeze recovery, has eased the mesh most of the way
\* to the lane to its side
C36_Witness ==
  /\ event.kind = "frame" /\ event.arg = 2 * MAX_DELTA_TIME
  /\ ~result.shouldSkipPhysics /\ ~result.isRecoveringFromFreeze
  /\ player.targetX # 0
  /\ player.meshX # 0
  /\ player.meshX # player.targetX
  /\ 2 * player.meshX * player.targetX > player.targetX * player.targetX

\* a freeze-recovery frame of 0.2 s has eased the mesh part of the way
C36_RecoveryEased ==
  /\ event.kind = "frame" /\ event.arg = EXTREME_DELTA_THRESHOLD
  /\ ~result.shouldSkipPhysics /\ result.isRecoveringFromFreeze
  /\ player.targetX # 0
  /\ player.meshX # 0
  /\ player.meshX # player.targetX


-----------------------------------------------------------------------------
(* Properties of the lane state *)

\* C37: targetX is GAME_CONFIG.lanes[currentLane] in every state; a step
\* that changes currentLane or targetX changes both, and it is an arrow key
\* moving to the lane next to the current one or the gesture lane effect
\* moving to the lane of the hand.
C37_TargetFollowsLane ==
  /\ [](player.targetX = laneX(player.currentLane))
  /\ [][ ( \/ player'.currentLane # player.currentLane
           \/ player'.targetX # player.targetX ) =>
         /\ player'.currentLane # player.currentLane
         /\ player'.targetX # player.targetX
         /\ \/ /\ event'.kind = "key"
               /\ event'.arg \in {"ArrowLeft", "ArrowRight"}
               /\ ~event'.gestureLane
               /\ player'.currentLane = keyLane(event'.arg, player.currentLane)
            \/ /\ event'.gestureLane
               /\ player'.currentLane = hand'.lane ]_vars

\* an arrow key has moved the player out of the lane a hand had steered it
\* into
C37_Witness ==
  /\ event.kind = "key" /\ event.arg \in {"ArrowLeft", "ArrowRight"}
  /\ hand.lane \in Lanes \ {"center"}
  /\ player.currentLane # hand.lane
  /\ player.keyboardActive
  /\ player.currentLane = keyLane(event.arg, hand.lane)
  /\ player.targetX = laneX(player.currentLane)

\* the gesture lane effect has moved the player to an outer lane
C37_GestureMoved ==
  /\ event.kind = "hand" /\ event.gestureLane
  /\ player.currentLane = hand.lane
  /\ player.targetX = laneX(hand.lane) /\ player.targetX # 0


-----------------------------------------------------------------------------
(* Properties of a halted game *)

Halted(sc) == sc.isGameOver \/ sc.isPaused

Steering(pl) == <<pl.currentLane, pl.targetX, pl.isJumping, pl.jumpStartTime>>

\* C38: a key press or a hand detection that reaches a game that is paused
\* or over changes none of currentLane, targetX, isJumping and
\* jumpStartTime, by its handler or by a gesture effect, and leaves
\* keyboardActive as it was.
C38_HaltedIgnoresInputs ==
  [][ ( event'.kind \in {"key", "hand"} /\ Halted(scene) ) =>
        /\ Steering(player') = Steering(player)
        /\ player'.keyboardActive = player.keyboardActive
        /\ ~event'.gestureLane /\ ~event'.gestureJump ]_vars

\* a closed hand has been detected in an outer lane and then an arrow key
\* pressed in a paused game, and the player is on the ground of the center
\* lane
C38_Witness ==
  /\ scene.isPaused /\ ~scene.isGameOver
  /\ event.kind = "key" /\ event.arg \in {"ArrowLeft", "ArrowRight", "ArrowUp"}
  /\ hand.lane \in {"left", "right"} /\ hand.jump
  /\ player.currentLane = "center" /\ player.targetX = 0
  /\ ~player.isJumping

\* a key has been pressed after game over and the keyboard is not active
C38_KeyWhenOver ==
  /\ scene.isGameOver
  /\ event.kind = "key" /\ event.arg \in {"ArrowLeft", "ArrowRight", "ArrowUp"}
  /\ ~player.keyboardActive
  /\ ~player.isJumping
  /\ player.targetX = laneX(player.currentLane)

\* a closed hand has been detected in another lane after game over, with the
\* keyboard not active
C38_HandWhenOver ==
  /\ scene.isGameOver
  /\ event.kind = "hand"
  /\ hand.lane \in Lanes \ {player.currentLane} /\ hand.jump
  /\ ~player.keyboardActive
  /\ ~player.isJumping
  /\ player.targetX = laneX(player.currentLane)


-----------------------------------------------------------------------------
(* Properties of the stopping of the detection *)

\* C39: once stopDetection() or cleanup() has returned, onDetection is not
\* called again, whatever was in flight when it was called.
C39_SilentAfterStop ==
  [][ ( event.kind = "loop" /\ event.stopped # "no" )
        => event'.callbacks = event.callbacks ]_vars

\* after the stop, onDetection is called only by a pass of detectLoop that
\* was awaiting detectForVideo: the callback of the classic detector and the
\* start of a pass test isRunning
C39_OnlyInFlightReports ==
  [][ ( event.kind = "loop" /\ event.stopped # "no" /\ ~event.inFlight )
        => event'.callbacks = event.callbacks ]_vars

\* the detection was stopped with results of the classic detector on their
\* way, which have come and have not been reported
C39_ClassicDropped ==
  /\ event.kind = "loop" /\ event.stopped # "no"
  /\ event.phase = "started" /\ ~event.isRunning
  /\ ~event.sendInFlight /\ ~event.inFlight
  /\ event.callbacks = 0 /\ inputBudget = MaxLoopFrames - 1
  /\ event.detector = "open"
  /\ ~event.queued /\ ~event.animationFrame

\* onDetection has been called after the detection was stopped
C39_LateCallback ==
  event.kind = "loop" /\ event.late


-----------------------------------------------------------------------------
(* Properties of the unmounting of the camera *)

\* the component was unmounted at one of the awaits of its initialization,
\* which has settled since
SettledAfterUnmount ==
  /\ event.kind = "mount"
  /\ ~event.mounted /\ event.unmountedAt # "done"
  /\ event.pc = "done"

\* C40: when the component was unmounted while its initialization was
\* awaiting and the initialization has settled, no detection is running and
\* the camera stream is not live.
C40_NothingLeftAfterUnmount ==
  SettledAfterUnmount => ~event.detecting /\ event.stream # "live"

\* unmounted at getUserMedia, HandCameraRefactored has a live stream and a
\* running detection loop
C40_RefactoredLeftRunning ==
  /\ SettledAfterUnmount
  /\ event.component = "HandCameraRefactored"
  /\ event.unmountedAt = "getUserMedia"
  /\ event.detecting /\ event.stream = "live"

\* unmounted at an await of startCamera, HandCameraImpl has a live stream
C40_ImplStreamLeft ==
  /\ SettledAfterUnmount
  /\ event.component = "HandCameraImpl"
  /\ event.unmountedAt \in {"getUserMedia", "metadata", "play"}
  /\ event.stream = "live" /\ ~event.detecting

\* unmounted while cameraInstance.start() was awaited, HandCameraImpl has
\* its camera_utils instance started
C40_ImplLeftDetecting ==
  /\ SettledAfterUnmount
  /\ event.component = "HandCameraImpl"
  /\ event.unmountedAt = "cameraStart"
  /\ event.detecting /\ event.stream = "stopped"

\* a component unmounted after its initialization has succeeded is left
\* with nothing active
C40_UnmountWhenSettled ==
  ( event.kind = "mount" /\ ~event.mounted /\ event.unmountedAt = "done"
    /\ ~event.error )
    => ~event.detecting /\ event.stream # "live" /\ event.detector # "open"

=============================================================================
